---------------------------- MODULE Spec2Model ----------------------------
(***************************************************************************)
(* Model of the resume text-extraction engine (services/pdfParser.js,      *)
(* extractResumeData) and of the birthday matcher (services/graphService.js*)
(* checkAndSendBirthdaySMS and its copies).                                *)
(*                                                                         *)
(* Strings are sequences of one-character strings.  The regular            *)
(* expressions of the source are written as syntax trees and are matched   *)
(* by a backtracking matcher that follows the ECMAScript semantics         *)
(* (leftmost match, alternatives in order, greedy and lazy quantifiers).   *)
(***************************************************************************)
EXTENDS Integers, Sequences, FiniteSets, TLC

(***************************************************************************)
(* Characters and strings                                                  *)
(***************************************************************************)

\* A JavaScript string literal as a sequence of characters.
\* const v = ...: the value v under a name in Body
Let(v, Body(_)) == Body(v)

Chars(str) == SubSeq([i \in 1..Len(str) |-> SubSeq(str, i, i)], 1, Len(str))

UpperSeq == Chars("ABCDEFGHIJKLMNOPQRSTUVWXYZ")
LowerSeq == Chars("abcdefghijklmnopqrstuvwxyz")
DigitSeq == Chars("0123456789")

Range(f) == {f[i] : i \in DOMAIN f}

Upper == Range(UpperSeq)
Lower == Range(LowerSeq)
Alpha == Upper \cup Lower
Digit == Range(DigitSeq)
AlNum == Alpha \cup Digit
\* \w and \s of ECMAScript, restricted to the characters of the model
WordCh == AlNum \cup {"_"}
Space == {" ", "\t", "\n", "\r"}
\* the two dash characters U+2014 and U+2013 of the DOB separator class
EmDash == "EMDASH"
EnDash == "ENDASH"

LetterIndex(seq, c) == CHOOSE i \in 1..26 : seq[i] = c

\* String.prototype.toLowerCase / toUpperCase, one character
LowerCh(c) == IF c \in Upper THEN LowerSeq[LetterIndex(UpperSeq, c)] ELSE c
UpperCh(c) == IF c \in Lower THEN UpperSeq[LetterIndex(LowerSeq, c)] ELSE c

toLowerCase(s) == SubSeq([i \in 1..Len(s) |-> LowerCh(s[i])], 1, Len(s))
toUpperCase(s) == SubSeq([i \in 1..Len(s) |-> UpperCh(s[i])], 1, Len(s))

\* s.substring(b, e) with 0-based JavaScript indices b <= e
substring(s, b, e) == SubSeq(s, b + 1, e)

\* the text of s from 1-based position b up to, not including, position e
Slice(s, b, e) == SubSeq(s, b, e - 1)

RECURSIVE TrimLeft(_)
TrimLeft(s) == IF s # <<>> /\ Head(s) \in Space THEN TrimLeft(Tail(s)) ELSE s

RECURSIVE TrimRight(_)
TrimRight(s) ==
  IF s # <<>> /\ s[Len(s)] \in Space THEN TrimRight(SubSeq(s, 1, Len(s) - 1)) ELSE s

\* String.prototype.trim
trim(s) == TrimRight(TrimLeft(s))

\* does w occur in s at 1-based position p
OccursAt(s, w, p) ==
  /\ p + Len(w) - 1 <= Len(s)
  /\ \A j \in 1..Len(w) : s[p + j - 1] = w[j]

\* String.prototype.includes
includes(s, w) == \E p \in 1..(Len(s) - Len(w) + 1) : OccursAt(s, w, p)

\* String.prototype.indexOf as a 1-based position (0 when w does not occur)
indexOf(s, w) ==
  IF includes(s, w)
  THEN CHOOSE p \in 1..(Len(s) - Len(w) + 1) :
         /\ OccursAt(s, w, p)
         /\ \A q \in 1..(p - 1) : ~OccursAt(s, w, q)
  ELSE 0

\* String.prototype.startsWith
startsWith(s, w) == OccursAt(s, w, 1)

(***************************************************************************)
(* Regular expressions: syntax trees                                       *)
(***************************************************************************)

\* the upper bound of an unbounded quantifier (*, +, {n,})
Unbounded == 100000

In(S) == [t |-> "in", s |-> S]                 \* [...]
NotIn(S) == [t |-> "notin", s |-> S]           \* [^...]
AnyCh == [t |-> "any"]                         \* [\s\S]
Lit(str) == [t |-> "lit", w |-> Chars(str)]    \* a literal string
Cat(rs) == [t |-> "cat", rs |-> rs]            \* r1 r2 ...
Alt(rs) == [t |-> "alt", rs |-> rs]            \* r1 | r2 | ...
Rep(r, lo, hi) == [t |-> "rep", r |-> r, lo |-> lo, hi |-> hi, lazy |-> FALSE]
RepLazy(r, lo, hi) == [t |-> "rep", r |-> r, lo |-> lo, hi |-> hi, lazy |-> TRUE]
Opt(r) == Rep(r, 0, 1)                         \* r?
Star(r) == Rep(r, 0, Unbounded)                \* r*
Plus(r) == Rep(r, 1, Unbounded)                \* r+
Grp(k, r) == [t |-> "grp", k |-> k, r |-> r]   \* capture group number k
Ahead(r) == [t |-> "ahead", r |-> r]           \* (?=r)
Bol == [t |-> "bol"]                           \* ^
Eol == [t |-> "eol"]                           \* $
WordB == [t |-> "wordb"]                       \* \b

\* a RegExp object's pattern and flags; n is the number of capture groups
RegExp(r, n, flags) ==
  [re |-> r, n |-> n,
   i |-> "i" \in Range(Chars(flags)),
   g |-> "g" \in Range(Chars(flags)),
   m |-> "m" \in Range(Chars(flags))]

(***************************************************************************)
(* Regular expressions: the backtracking matcher                           *)
(***************************************************************************)

NoMatch == [ok |-> FALSE]

\* a capture is <<b, e>>, the positions of Slice; <<0, 0>> is undefined
NoCaps(n) == [j \in 1..n |-> <<0, 0>>]

ChEq(R, a, b) == IF R.i THEN LowerCh(a) = LowerCh(b) ELSE a = b
ChIn(R, c, S) == IF R.i THEN (c \in S \/ LowerCh(c) \in S \/ UpperCh(c) \in S) ELSE c \in S

IsWordAt(s, j) == j >= 1 /\ j <= Len(s) /\ s[j] \in WordCh

OneCh(R, r, ch) ==
  CASE r.t = "in" -> ChIn(R, ch, r.s)
    [] r.t = "notin" -> ~ChIn(R, ch, r.s)
    [] r.t = "any" -> TRUE

\* the number of characters of s from position a up to position b that match
\* the one-character tree r, counted from a up to the first that does not
RECURSIVE RunLen(_, _, _, _, _)
RunLen(R, r, s, a, b) ==
  IF a > b THEN 0
  ELSE IF a = b THEN (IF OneCh(R, r, s[a]) THEN 1 ELSE 0)
  ELSE LET mid == (a + b) \div 2
           left == RunLen(R, r, s, a, mid)
       IN IF left < mid - a + 1 THEN left ELSE left + RunLen(R, r, s, mid + 1, b)

MinOf(a, b) == IF a < b THEN a ELSE b

\* the continuation k starts with a syntax tree of one of the kinds T
HeadIs(k, T) == k # <<>> /\ Head(k).t \in T

\* the most repetitions of the quantified character class r that s allows
\* at position i
Run(R, r, s, i) == RunLen(R, r.r, s, i, i + MinOf(r.hi, Len(s) - i + 1) - 1)

\* Matches the continuation k (a sequence of syntax trees, to be matched one
\* after the other) against s from position i with captures c.  The first
\* way of matching found by backtracking is the result, as in ECMAScript:
\* alternatives are tried left to right, a greedy quantifier tries the most
\* repetitions first and a lazy quantifier the fewest.  A tree that does
\* not match where it stands ends the attempt (the last case).
RECURSIVE Match(_, _, _, _, _), FirstAlt(_, _, _, _, _, _, _, _), FirstLen(_, _, _, _, _, _, _, _, _)
Match(R, k, s, i, c) ==
  CASE k = <<>> -> [ok |-> TRUE, e |-> i, c |-> c]
    [] HeadIs(k, {"in", "notin", "any"}) /\ i <= Len(s) /\ OneCh(R, Head(k), s[i]) ->
         Match(R, Tail(k), s, i + 1, c)
    [] /\ HeadIs(k, {"lit"})
       /\ i + Len(Head(k).w) - 1 <= Len(s)
       /\ \A j \in 1..Len(Head(k).w) : ChEq(R, s[i + j - 1], Head(k).w[j]) ->
         Match(R, Tail(k), s, i + Len(Head(k).w), c)
    [] HeadIs(k, {"cat"}) -> Match(R, Head(k).rs \o Tail(k), s, i, c)
    [] HeadIs(k, {"alt"}) -> FirstAlt(R, Head(k).rs, Tail(k), s, i, c, 1, Len(Head(k).rs))
    \* a quantified character class: the run of matching characters bounds
    \* the repetitions that can be tried
    [] HeadIs(k, {"rep"}) /\ Head(k).r.t \in {"in", "notin", "any"} /\ Head(k).lazy ->
         FirstLen(R, Tail(k), s, i, c, Head(k).lo, 1, 0, Run(R, Head(k), s, i) - Head(k).lo)
    [] HeadIs(k, {"rep"}) /\ Head(k).r.t \in {"in", "notin", "any"} ->
         FirstLen(R, Tail(k), s, i, c, Run(R, Head(k), s, i), -1, 0, Run(R, Head(k), s, i) - Head(k).lo)
    [] HeadIs(k, {"rep"}) /\ Head(k).lo > 0 ->
         Match(R, <<Head(k).r, [Head(k) EXCEPT !.lo = @ - 1, !.hi = @ - 1]>> \o Tail(k), s, i, c)
    [] HeadIs(k, {"rep"}) /\ Head(k).hi = 0 -> Match(R, Tail(k), s, i, c)
    \* one more repetition or none: none first when lazy, one more first otherwise
    [] HeadIs(k, {"rep"}) /\ Head(k).lazy ->
         FirstAlt(R, <<Cat(<<>>), Cat(<<Head(k).r, [Head(k) EXCEPT !.hi = @ - 1]>>)>>, Tail(k), s, i, c, 1, 2)
    [] HeadIs(k, {"rep"}) ->
         FirstAlt(R, <<Cat(<<Head(k).r, [Head(k) EXCEPT !.hi = @ - 1]>>), Cat(<<>>)>>, Tail(k), s, i, c, 1, 2)
    [] HeadIs(k, {"grp"}) ->
         Match(R, <<Head(k).r, [t |-> "close", k |-> Head(k).k, b |-> i]>> \o Tail(k), s, i, c)
    [] HeadIs(k, {"close"}) ->
         Match(R, Tail(k), s, i, [c EXCEPT ![Head(k).k] = <<Head(k).b, i>>])
    [] HeadIs(k, {"ahead"}) /\ Match(R, <<Head(k).r>>, s, i, c).ok -> Match(R, Tail(k), s, i, c)
    [] HeadIs(k, {"bol"}) /\ (i = 1 \/ (R.m /\ s[i - 1] \in {"\n", "\r"})) ->
         Match(R, Tail(k), s, i, c)
    [] HeadIs(k, {"eol"}) /\ (i = Len(s) + 1 \/ (R.m /\ s[i] \in {"\n", "\r"})) ->
         Match(R, Tail(k), s, i, c)
    [] HeadIs(k, {"wordb"}) /\ IsWordAt(s, i - 1) # IsWordAt(s, i) -> Match(R, Tail(k), s, i, c)
    [] OTHER -> NoMatch

\* the first of the alternatives alts[lo..hi], in order, with which the
\* continuation matches
FirstAlt(R, alts, rest, s, i, c, lo, hi) ==
  LET first == Match(R, <<alts[lo]>> \o rest, s, i, c)
      mid == (lo + 1 + hi) \div 2
      left == FirstAlt(R, alts, rest, s, i, c, lo + 1, mid)
  IN CASE lo > hi -> NoMatch
       [] lo = hi \/ first.ok -> first
       [] mid = hi \/ left.ok -> left
       [] OTHER -> FirstAlt(R, alts, rest, s, i, c, mid + 1, hi)

\* the first of the repetition counts n0 + d*lo, ..., n0 + d*hi, in that
\* order, after which the continuation matches
FirstLen(R, rest, s, i, c, n0, d, lo, hi) ==
  LET first == Match(R, rest, s, i + n0 + d * lo, c)
      mid == (lo + 1 + hi) \div 2
      left == FirstLen(R, rest, s, i, c, n0, d, lo + 1, mid)
  IN CASE lo > hi -> NoMatch
       [] lo = hi \/ first.ok -> first
       [] mid = hi \/ left.ok -> left
       [] OTHER -> FirstLen(R, rest, s, i, c, n0, d, mid + 1, hi)

\* the leftmost position in lo..hi at which R matches s, with the match
RECURSIVE SearchIn(_, _, _, _)
SearchIn(R, s, lo, hi) ==
  IF lo > hi THEN NoMatch
  ELSE IF lo = hi
  THEN LET r == Match(R, <<R.re>>, s, lo, NoCaps(R.n))
       IN IF r.ok THEN [ok |-> TRUE, b |-> lo, e |-> r.e, c |-> r.c] ELSE NoMatch
  ELSE LET mid == (lo + hi) \div 2
           left == SearchIn(R, s, lo, mid)
       IN IF left.ok THEN left ELSE SearchIn(R, s, mid + 1, hi)

\* The leftmost match of R in s that starts at position p or later:
\* [ok, b, e, c] with the match being Slice(s, b, e).
SearchFrom(R, s, p) == SearchIn(R, s, p, Len(s) + 1)

\* the text of a match, and of its capture group j ("undefined" is <<>>,
\* which the source's truthiness tests do not tell from the empty string)
Matched(s, mt) == Slice(s, mt.b, mt.e)
Group(s, mt, j) == IF mt.c[j] = <<0, 0>> THEN <<>> ELSE Slice(s, mt.c[j][1], mt.c[j][2])

\* RegExp.prototype.test and String.prototype.match without the g flag
test(R, s) == SearchFrom(R, s, 1).ok

\* String.prototype.match with the g flag: all matches, left to right
RECURSIVE AllFrom(_, _, _)
AllFrom(R, s, p) ==
  Let(SearchFrom(R, s, p), LAMBDA mt :
     IF ~mt.ok THEN <<>>
     ELSE <<mt>> \o AllFrom(R, s, IF mt.e = mt.b THEN mt.e + 1 ELSE mt.e))

matchAll(R, s) == AllFrom(R, s, 1)

\* String.prototype.replace(R, by): every match when R has the g flag,
\* the first match otherwise
RECURSIVE ReplaceFrom(_, _, _, _)
ReplaceFrom(R, s, by, p) ==
  Let(SearchFrom(R, s, p), LAMBDA mt :
     IF ~mt.ok THEN Slice(s, p, Len(s) + 1)
     ELSE Slice(s, p, mt.b) \o by \o
          (IF ~R.g THEN Slice(s, mt.e, Len(s) + 1)
           ELSE IF mt.e = mt.b
                THEN Slice(s, mt.e, mt.e + 1) \o ReplaceFrom(R, s, by, mt.e + 1)
                ELSE ReplaceFrom(R, s, by, mt.e)))

replace(R, s, by) == ReplaceFrom(R, s, by, 1)

\* String.prototype.split(R): the pieces of s between the matches of R
\* (no pattern of the source that is split on matches the empty string)
RECURSIVE SplitFrom(_, _, _)
SplitFrom(R, s, p) ==
  Let(SearchFrom(R, s, p), LAMBDA mt :
     IF ~mt.ok \/ mt.e = mt.b THEN <<Slice(s, p, Len(s) + 1)>>
     ELSE <<Slice(s, p, mt.b)>> \o SplitFrom(R, s, mt.e))

split(R, s) == SplitFrom(R, s, 1)

\* Array.prototype.join
RECURSIVE join(_, _)
join(ws, sep) ==
  IF ws = <<>> THEN <<>>
  ELSE IF Len(ws) = 1 THEN ws[1]
  ELSE ws[1] \o sep \o join(Tail(ws), sep)

\* the elements of seq that satisfy Keep(_), in order (Array.prototype.filter)
filter(seq, Keep(_)) == SelectSeq(seq, Keep)

(***************************************************************************)
(* extractResumeData: the profile and the lines of the text                *)
(***************************************************************************)

\* the value of `text` when the caller passes null: no string, its one
\* element is not a character
Null == <<"null">>

\* const data = {...}
EmptyProfile ==
  [name |-> <<>>, email |-> <<>>, contactNumber |-> <<>>, dateOfBirth |-> <<>>,
   experience |-> <<>>, role |-> <<>>, location |-> <<>>, skills |-> <<>>,
   education |-> <<>>, summary |-> <<>>,
   links |-> [linkedin |-> <<>>, github |-> <<>>, portfolio |-> <<>>]]

\* /\r?\n/
LineBreak == RegExp(Cat(<<Opt(Lit("\r")), Lit("\n")>>), 0, "")

NonEmpty(line) == Len(line) > 0

\* originalText.split(/\r?\n/).map(line => line.trim()).filter(line => line.length > 0)
Lines(text) ==
  Let(split(LineBreak, text), LAMBDA raw :
     filter([j \in 1..Len(raw) |-> trim(raw[j])], NonEmpty))

(***************************************************************************)
(* extractResumeData: name                                                 *)
(***************************************************************************)

LineStart == Alt(<<Bol, Lit("\n")>>)           \* (?:^|\n)
Spaces == Star(In(Space))                      \* \s*
RestOfLine == Plus(NotIn({"\n", "\r"}))        \* [^\n\r]+
LettersAndSpace == Plus(In(Alpha \cup Space))  \* [A-Za-z\s]+

namePatterns1 == <<
  \* /(?:^|\n)\s*name\s*[:]\s*([^\n\r]+)/i
  RegExp(Cat(<<LineStart, Spaces, Lit("name"), Spaces, In({":"}), Spaces,
               Grp(1, RestOfLine)>>), 1, "i"),
  \* /(?:^|\n)\s*full\s*name\s*[:]\s*([^\n\r]+)/i
  RegExp(Cat(<<LineStart, Spaces, Lit("full"), Spaces, Lit("name"), Spaces, In({":"}),
               Spaces, Grp(1, RestOfLine)>>), 1, "i"),
  \* /name\s*[:]\s*([A-Za-z\s]+)/i
  RegExp(Cat(<<Lit("name"), Spaces, In({":"}), Spaces, Grp(1, LettersAndSpace)>>), 1, "i"),
  \* /full\s*name\s*[:]\s*([A-Za-z\s]+)/i
  RegExp(Cat(<<Lit("full"), Spaces, Lit("name"), Spaces, In({":"}), Spaces,
               Grp(1, LettersAndSpace)>>), 1, "i") >>

\* for (const pattern of namePatterns1): the first pattern, from index j on,
\* that matches with a non-empty group 1 gives its trimmed group
RECURSIVE NameByLabel(_, _, _)
NameByLabel(name, text, j) ==
  IF j > Len(namePatterns1) THEN name
  ELSE Let(SearchFrom(namePatterns1[j], text, 1), LAMBDA mt :
          IF mt.ok /\ Group(text, mt, 1) # <<>> THEN trim(Group(text, mt, 1))
          ELSE NameByLabel(name, text, j + 1))

\* Strategy 1: a "Name:" or "Full Name:" label
NameStrategy1(name, text) == NameByLabel(name, text, 1)

WhiteSpaceG == RegExp(In(Space), 0, "g")                        \* /\s/g
AllUpperLetters == RegExp(Cat(<<Bol, Plus(In(Upper)), Eol>>), 0, "")  \* /^[A-Z]+$/
\* /^([A-Z]{3,})([A-Z]{3,})$/
splitPattern ==
  RegExp(Cat(<<Bol, Grp(1, Rep(In(Upper), 3, Unbounded)),
               Grp(2, Rep(In(Upper), 3, Unbounded)), Eol>>), 2, "")

\* strategy 2 without its test that no name was found before
NameStrategy2Unguarded(name, lines) ==
  IF Len(lines) > 0
  THEN Let(lines[1], LAMBDA firstLine :
          IF /\ firstLine = toUpperCase(firstLine)
             /\ test(AllUpperLetters, replace(WhiteSpaceG, firstLine, <<>>))
             /\ Len(firstLine) > 5 /\ Len(firstLine) < 30
          THEN Let(SearchFrom(splitPattern, firstLine, 1), LAMBDA splitMatch :
                  IF splitMatch.ok
                  THEN Group(firstLine, splitMatch, 1) \o <<" ">> \o Group(firstLine, splitMatch, 2)
                  ELSE firstLine)
          ELSE name)
  ELSE name

\* Strategy 2: first line in capitals
NameStrategy2(name, lines) ==
  IF name = <<>> /\ Len(lines) > 0
  THEN Let(lines[1], LAMBDA firstLine :
          IF /\ firstLine = toUpperCase(firstLine)
             /\ test(AllUpperLetters, replace(WhiteSpaceG, firstLine, <<>>))
             /\ Len(firstLine) > 5 /\ Len(firstLine) < 30
          THEN Let(SearchFrom(splitPattern, firstLine, 1), LAMBDA splitMatch :
                  IF splitMatch.ok
                  THEN Group(firstLine, splitMatch, 1) \o <<" ">> \o Group(firstLine, splitMatch, 2)
                  ELSE firstLine)
          ELSE name)
  ELSE name

WhiteSpaceRun == RegExp(Plus(In(Space)), 0, "")                 \* /\s+/
\* /^[A-Z\s]+$/
UpperAndSpace == RegExp(Cat(<<Bol, Plus(In(Upper \cup Space)), Eol>>), 0, "")

Least(S) == CHOOSE i \in S : \A j \in S : i <= j

\* for (let i = 0; i < Math.min(n, lines.length); i++): the first of the
\* first n lines that a strategy's test accepts
FirstLine(lines, n, Accepts(_)) ==
  Let({i \in 1..MinOf(n, Len(lines)) : Accepts(lines[i])}, LAMBDA ok :
     IF ok = {} THEN <<>> ELSE lines[Least(ok)])

AllCapsSpaced(line) ==
  /\ line = toUpperCase(line) /\ Len(line) > 5 /\ Len(line) < 50
  /\ Let(split(WhiteSpaceRun, line), LAMBDA words :
        Len(words) >= 2 /\ Len(words) <= 4 /\ test(UpperAndSpace, line))

\* Strategy 2b: a line in capitals with spaces among the first 5
NameStrategy2b(name, lines) ==
  IF name = <<>> THEN FirstLine(lines, 5, AllCapsSpaced) ELSE name

StartsUpper == RegExp(Cat(<<Bol, In(Upper)>>), 0, "")                    \* /^[A-Z]/
OnlyLetters == RegExp(Cat(<<Bol, Plus(In(Alpha)), Eol>>), 0, "")         \* /^[A-Za-z]+$/
\* /^[A-Za-z\s]+$/
LettersSpaceOnly == RegExp(Cat(<<Bol, LettersAndSpace, Eol>>), 0, "")

Capitalized(line) ==
  Let(split(WhiteSpaceRun, line), LAMBDA words :
     /\ Len(words) >= 2 /\ Len(words) <= 4
     /\ \A j \in 1..Len(words) :
          Len(words[j]) > 0 /\ test(StartsUpper, words[j]) /\ test(OnlyLetters, words[j])
     /\ test(LettersSpaceOnly, line))

\* Strategy 3: a line of 2-4 capitalized words among the first 10
NameStrategy3(name, lines) ==
  IF name = <<>> THEN FirstLine(lines, 10, Capitalized) ELSE name

CapWord == Cat(<<In(Upper), Plus(In(Lower))>>)   \* [A-Z][a-z]+
\* /^([A-Z][a-z]+\s+[A-Z][a-z]+(?:\s+[A-Z][a-z]+)?)/m
namePattern ==
  RegExp(Cat(<<Bol, Grp(1, Cat(<<CapWord, Plus(In(Space)), CapWord,
                                 Opt(Cat(<<Plus(In(Space)), CapWord>>))>>))>>), 1, "m")

\* Strategy 4: First Last at the start of a line
NameStrategy4(name, text) ==
  IF name = <<>>
  THEN Let(SearchFrom(namePattern, text, 1), LAMBDA mt :
          IF mt.ok /\ Group(text, mt, 1) # <<>> THEN trim(Group(text, mt, 1)) ELSE name)
  ELSE name

(***************************************************************************)
(* extractResumeData: email                                                *)
(***************************************************************************)

\* /\b[a-zA-Z0-9](?:[a-zA-Z0-9._-]*[a-zA-Z0-9])?@[a-zA-Z0-9](?:[a-zA-Z0-9.-]*[a-zA-Z0-9])?\.[a-zA-Z]{2,}\b/g
emailRegex ==
  RegExp(Cat(<<WordB, In(AlNum),
               Opt(Cat(<<Star(In(AlNum \cup {".", "_", "-"})), In(AlNum)>>)),
               Lit("@"), In(AlNum),
               Opt(Cat(<<Star(In(AlNum \cup {".", "-"})), In(AlNum)>>)),
               Lit("."), Rep(In(Alpha), 2, Unbounded), WordB>>), 0, "g")

falsePositives == <<Chars("example.com"), Chars("email.com"), Chars("test.com"), Chars("domain.com")>>

AtSign == RegExp(Lit("@"), 0, "g")

\* const domain = email.split('@')[1]; return !falsePositives.some(fp => domain.includes(fp))
NotFalsePositive(email) ==
  Let(split(AtSign, email)[2], LAMBDA domain :
     ~\E j \in 1..Len(falsePositives) : includes(domain, falsePositives[j]))

\* the texts of the matches of R in s (the array that s.match(R) returns
\* when R has the g flag; the empty sequence stands for null)
matches(R, s) ==
  Let(matchAll(R, s), LAMBDA ms :
     [j \in 1..Len(ms) |-> Matched(s, ms[j])])

\* the primary scan of the whole text
EmailPrimary(text) ==
  Let(matches(emailRegex, text), LAMBDA found :
  Let(filter([j \in 1..Len(found) |-> trim(toLowerCase(found[j]))], NotFalsePositive), LAMBDA kept :
     IF Len(kept) > 0 THEN kept[1] ELSE <<>>))

EmailLocal == Plus(In(AlNum \cup {".", "_", "%", "+", "-"}))    \* [a-zA-Z0-9._%+-]+
EmailDomain == Plus(In(AlNum \cup {".", "-"}))                  \* [a-zA-Z0-9.-]+
EmailLabel == Alt(<<Lit("email"), Lit("e-mail"), Lit("mail")>>) \* (?:email|e-mail|mail)

emailWithLabelPatterns == <<
  \* /(?:email|e-mail|mail)\s*[:]\s*([a-zA-Z0-9._%+-]+@[a-zA-Z0-9.-]+\.[a-zA-Z]{2,})/gi
  RegExp(Cat(<<EmailLabel, Spaces, In({":"}), Spaces,
               Grp(1, Cat(<<EmailLocal, Lit("@"), EmailDomain, Lit("."),
                            Rep(In(Alpha), 2, Unbounded)>>))>>), 1, "gi"),
  \* /(?:email|e-mail|mail)\s*[=]\s*([a-zA-Z0-9._%+-]+@[a-zA-Z0-9.-]+\.[a-zA-Z]{2,})/gi
  RegExp(Cat(<<EmailLabel, Spaces, In({"="}), Spaces,
               Grp(1, Cat(<<EmailLocal, Lit("@"), EmailDomain, Lit("."),
                            Rep(In(Alpha), 2, Unbounded)>>))>>), 1, "gi") >>

\* for (const match of matches): the first labeled match in which emailRegex
\* finds an address gives that address
RECURSIVE EmailInLabeled(_, _)
EmailInLabeled(ms, j) ==
  IF j > Len(ms) THEN <<>>
  ELSE Let(matches(emailRegex, ms[j]), LAMBDA emailMatch :
          IF Len(emailMatch) > 0 /\ emailMatch[1] # <<>>
          THEN trim(toLowerCase(emailMatch[1]))
          ELSE EmailInLabeled(ms, j + 1))

\* for (const pattern of emailWithLabelPatterns)
RECURSIVE EmailByLabel(_, _)
EmailByLabel(text, j) ==
  IF j > Len(emailWithLabelPatterns) THEN <<>>
  ELSE Let(EmailInLabeled(matches(emailWithLabelPatterns[j], text), 1), LAMBDA email :
          IF email # <<>> THEN email ELSE EmailByLabel(text, j + 1))

ExtractEmail(text) ==
  Let(EmailPrimary(text), LAMBDA primary :
     IF primary # <<>> THEN primary ELSE EmailByLabel(text, 1))

(***************************************************************************)
(* extractResumeData: contact number                                       *)
(***************************************************************************)

Sep == Opt(In({"-", "."} \cup Space))          \* [-.\s]?
Digits(lo, hi) == Rep(In(Digit), lo, hi)       \* \d{lo,hi}

phonePatterns == <<
  \* /\+?\d{1,4}[-.\s]?\(?\d{1,4}\)?[-.\s]?\d{1,4}[-.\s]?\d{1,4}[-.\s]?\d{1,9}/g
  RegExp(Cat(<<Opt(Lit("+")), Digits(1, 4), Sep, Opt(Lit("(")), Digits(1, 4), Opt(Lit(")")),
               Sep, Digits(1, 4), Sep, Digits(1, 4), Sep, Digits(1, 9)>>), 0, "g"),
  \* /\(?\d{3}\)?[-.\s]?\d{3}[-.\s]?\d{4}/g
  RegExp(Cat(<<Opt(Lit("(")), Digits(3, 3), Opt(Lit(")")), Sep, Digits(3, 3), Sep,
               Digits(4, 4)>>), 0, "g"),
  \* /\+?91[-.\s]?\d{5}[-.\s]?\d{5}/g
  RegExp(Cat(<<Opt(Lit("+")), Lit("91"), Sep, Digits(5, 5), Sep, Digits(5, 5)>>), 0, "g"),
  \* /\b\d{10,15}\b/g
  RegExp(Cat(<<WordB, Digits(10, 15), WordB>>), 0, "g"),
  \* /\d{3,4}\s+\d{3,4}\s+\d{3,4}/g
  RegExp(Cat(<<Digits(3, 4), Plus(In(Space)), Digits(3, 4), Plus(In(Space)),
               Digits(3, 4)>>), 0, "g") >>

PhoneChars == Plus(In(Digit \cup Space \cup {"+", "-", "(", ")", "."}))   \* [+\d\s\-().]+

phoneWithLabelPatterns == <<
  \* /(?:phone|mobile|contact|tel|telephone|cell|mob|whatsapp)\s*[:=]?\s*([+\d\s\-().]+)/gi
  RegExp(Cat(<<Alt(<<Lit("phone"), Lit("mobile"), Lit("contact"), Lit("tel"), Lit("telephone"),
                     Lit("cell"), Lit("mob"), Lit("whatsapp")>>),
               Spaces, Opt(In({":", "="})), Spaces, Grp(1, PhoneChars)>>), 1, "gi"),
  \* /(?:ph|mob|tel)\s*[:=]?\s*([+\d\s\-().]+)/gi
  RegExp(Cat(<<Alt(<<Lit("ph"), Lit("mob"), Lit("tel")>>),
               Spaces, Opt(In({":", "="})), Spaces, Grp(1, PhoneChars)>>), 1, "gi") >>

PhoneRun == RegExp(PhoneChars, 0, "")                         \* /[+\d\s\-().]+/
NotDigitOrPlus == RegExp(NotIn(Digit \cup {"+"}), 0, "g")   \* /[^\d+]/g
YearLike == RegExp(Cat(<<Bol, In({"1", "2"}), Digits(3, 3), Eol>>), 0, "")  \* /^[12]\d{3}$/

\* cleaned.length >= 10 && cleaned.length <= 15
PhoneLengthOk(cleaned) == Len(cleaned) >= 10 /\ Len(cleaned) <= 15

\* for (const match of matches), labeled: the first match whose first run of
\* phone characters cleans to 10-15 characters
RECURSIVE PhoneInLabeled(_, _)
PhoneInLabeled(ms, j) ==
  IF j > Len(ms) THEN <<>>
  ELSE Let(SearchFrom(PhoneRun, ms[j], 1), LAMBDA phoneMatch :
       Let(replace(NotDigitOrPlus, Matched(ms[j], phoneMatch), <<>>), LAMBDA cleaned :
          IF phoneMatch.ok /\ PhoneLengthOk(cleaned) THEN cleaned
          ELSE PhoneInLabeled(ms, j + 1)))

\* for (const pattern of phoneWithLabelPatterns)
RECURSIVE PhoneByLabel(_, _)
PhoneByLabel(text, j) ==
  IF j > Len(phoneWithLabelPatterns) THEN <<>>
  ELSE Let(PhoneInLabeled(matches(phoneWithLabelPatterns[j], text), 1), LAMBDA found :
          IF found # <<>> THEN found ELSE PhoneByLabel(text, j + 1))

\* the position (1-based) where the email-context test looks:
\* originalText.indexOf(match)
ContextPosition(text, mt) == indexOf(text, Matched(text, mt))

\* the test that a candidate is part of an email address
InEmailContext(text, mt) ==
  Let(Matched(text, mt), LAMBDA match :
  Let(ContextPosition(text, mt) - 1, LAMBDA at :  \* the 0-based index
  Let(substring(text, IF at - 5 > 0 THEN at - 5 ELSE 0, at), LAMBDA beforeMatch :
  Let(substring(text, at + Len(match), MinOf(Len(text), at + Len(match) + 5)), LAMBDA afterMatch :
     \/ includes(beforeMatch, <<"@">>)
     \/ includes(afterMatch, <<"@">>)
     \/ (includes(beforeMatch, <<".">>) /\ includes(afterMatch, <<".">>))))))

\* for (const match of matches), standalone: the first match of 10-15
\* cleaned characters that is neither a year nor in an email context
RECURSIVE PhoneInStandalone(_, _, _)
PhoneInStandalone(text, ms, j) ==
  IF j > Len(ms) THEN <<>>
  ELSE Let(replace(NotDigitOrPlus, Matched(text, ms[j]), <<>>), LAMBDA cleaned :
          IF /\ PhoneLengthOk(cleaned)
             /\ ~(Len(cleaned) = 4 /\ test(YearLike, cleaned))
             /\ ~InEmailContext(text, ms[j])
          THEN cleaned
          ELSE PhoneInStandalone(text, ms, j + 1))

\* for (const pattern of phonePatterns)
RECURSIVE PhoneStandalone(_, _)
PhoneStandalone(text, j) ==
  IF j > Len(phonePatterns) THEN <<>>
  ELSE Let(PhoneInStandalone(text, matchAll(phonePatterns[j], text), 1), LAMBDA found :
          IF found # <<>> THEN found ELSE PhoneStandalone(text, j + 1))

ExtractContactNumber(text) ==
  Let(PhoneByLabel(text, 1), LAMBDA labeled :
     IF labeled # <<>> THEN labeled ELSE PhoneStandalone(text, 1))

(***************************************************************************)
(* extractResumeData: date of birth                                        *)
(***************************************************************************)

\* (?:date\s*of\s*birth|dob|d\.o\.b\.|birth\s*date|born|birth)
DobLabel ==
  Alt(<<Cat(<<Lit("date"), Spaces, Lit("of"), Spaces, Lit("birth")>>), Lit("dob"),
        Lit("d.o.b."), Cat(<<Lit("birth"), Spaces, Lit("date")>>), Lit("born"), Lit("birth")>>)
DobSep == Opt(In({":", "-", "=", EmDash, EnDash}))              \* [:\-=<em dash><en dash>]?
DateSep == In({"/", "-", "."})                                  \* [\/\-\.]
\* [0-9]{1,2}[\/\-\.][0-9]{1,2}[\/\-\.][0-9]{2,4}
NumericDate == Cat(<<Digits(1, 2), DateSep, Digits(1, 2), DateSep, Digits(2, 4)>>)

\* the three patterns with a first pattern that does not know the label "born"
dobPatternsBornLooseOnly == <<
  RegExp(Cat(<<Alt(<<Cat(<<Lit("date"), Spaces, Lit("of"), Spaces, Lit("birth")>>), Lit("dob"),
                     Lit("d.o.b."), Cat(<<Lit("birth"), Spaces, Lit("date")>>), Lit("birth")>>),
               Spaces, DobSep, Spaces, Grp(1, NumericDate)>>), 1, "gi"),
  RegExp(Cat(<<DobLabel, Spaces, DobSep, Spaces,
               Grp(1, Cat(<<Plus(In(Alpha)), Plus(In(Space)), Digits(1, 2), Opt(Lit(",")),
                            Plus(In(Space)), Digits(4, 4)>>))>>), 1, "gi"),
  RegExp(Cat(<<Opt(In(Lower)), Alt(<<Lit("dob"), Lit("birth"), Lit("born")>>), Spaces, DobSep,
               Spaces, Grp(1, NumericDate)>>), 1, "gi") >>

dobPatterns == <<
  RegExp(Cat(<<DobLabel, Spaces, DobSep, Spaces, Grp(1, NumericDate)>>), 1, "gi"),
  \* ...\s*([A-Za-z]+\s+\d{1,2},?\s+\d{4})/gi
  RegExp(Cat(<<DobLabel, Spaces, DobSep, Spaces,
               Grp(1, Cat(<<Plus(In(Alpha)), Plus(In(Space)), Digits(1, 2), Opt(Lit(",")),
                            Plus(In(Space)), Digits(4, 4)>>))>>), 1, "gi"),
  \* /[a-z]?(?:dob|birth|born)\s*[:\-=<em dash><en dash>]?\s*([0-9]{1,2}...)/gi
  RegExp(Cat(<<Opt(In(Lower)), Alt(<<Lit("dob"), Lit("birth"), Lit("born")>>), Spaces, DobSep,
               Spaces, Grp(1, NumericDate)>>), 1, "gi") >>

\* /\b(0?[1-9]|[12][0-9]|3[01])[\/\-\.](0?[1-9]|1[0-2])[\/\-\.](19[4-9]\d|200[0-9]|201[0-5])\b/g
datePattern ==
  RegExp(Cat(<<WordB,
               Grp(1, Alt(<<Cat(<<Opt(Lit("0")), In(Digit \ {"0"})>>),
                            Cat(<<In({"1", "2"}), In(Digit)>>),
                            Cat(<<Lit("3"), In({"0", "1"})>>)>>)),
               DateSep,
               Grp(2, Alt(<<Cat(<<Opt(Lit("0")), In(Digit \ {"0"})>>),
                            Cat(<<Lit("1"), In({"0", "1", "2"})>>)>>)),
               DateSep,
               Grp(3, Alt(<<Cat(<<Lit("19"), In({"4", "5", "6", "7", "8", "9"}), In(Digit)>>),
                            Cat(<<Lit("200"), In(Digit)>>),
                            Cat(<<Lit("201"), In({"0", "1", "2", "3", "4", "5"})>>)>>)),
               WordB>>), 3, "g")

\* RegExp.prototype.exec: with the g flag the search starts at lastIndex
\* (0-based) and a match leaves lastIndex at its end, a failure at 0;
\* without it the search starts at 0 and lastIndex is left alone.
\* The result is [mt |-> the match, lastIndex |-> the new lastIndex].
exec(R, lastIndex, s) ==
  Let(IF R.g THEN SearchFrom(R, s, lastIndex + 1) ELSE SearchFrom(R, s, 1), LAMBDA mt :
     [mt |-> mt,
      lastIndex |-> IF ~R.g THEN lastIndex ELSE IF mt.ok THEN mt.e - 1 ELSE 0])

\* match[1] || match[0]
GroupOrMatch(s, mt) == IF Group(s, mt, 1) # <<>> THEN Group(s, mt, 1) ELSE Matched(s, mt)

\* for (const pattern of dobPatterns): pattern.lastIndex = 0; pattern.exec(...).
\* The result is [dob |-> the date found, li |-> the patterns' lastIndex].
RECURSIVE DobByLabel(_, _, _)
DobByLabel(text, li, j) ==
  IF j > Len(dobPatterns) THEN [dob |-> <<>>, li |-> li]
  ELSE Let(exec(dobPatterns[j], 0, text), LAMBDA r :
       Let([li EXCEPT ![j] = r.lastIndex], LAMBDA li2 :
          IF r.mt.ok /\ GroupOrMatch(text, r.mt) # <<>>
          THEN [dob |-> trim(GroupOrMatch(text, r.mt)), li |-> li2]
          ELSE DobByLabel(text, li2, j + 1)))

\* the fallback: the first date with a year in 1940-2015
DobFallback(text) ==
  Let(matches(datePattern, text), LAMBDA dateMatches :
     IF Len(dateMatches) > 0 THEN trim(dateMatches[1]) ELSE <<>>)

\* the two tiers in the other order: the fallback before the labels
ExtractDateOfBirthFallbackFirst(text, li) ==
  Let(DobFallback(text), LAMBDA unlabeled :
     IF unlabeled # <<>> THEN [dob |-> unlabeled, li |-> li]
     ELSE DobByLabel(text, li, 1))

\* [dob, li]: li is the lastIndex of the three dobPatterns afterwards
ExtractDateOfBirth(text, li) ==
  Let(DobByLabel(text, li, 1), LAMBDA labeled :
     IF labeled.dob # <<>> THEN labeled
     ELSE [dob |-> DobFallback(text), li |-> labeled.li])

(***************************************************************************)
(* extractResumeData: experience                                           *)
(***************************************************************************)

Number == Cat(<<Plus(In(Digit)), Opt(Cat(<<Lit("."), Plus(In(Digit))>>))>>)  \* [0-9]+(?:\.[0-9]+)?
\* (?:years?|yrs?|yr)
YearsWord == Alt(<<Cat(<<Lit("year"), Opt(Lit("s"))>>), Cat(<<Lit("yr"), Opt(Lit("s"))>>), Lit("yr")>>)

experiencePatterns == <<
  \* /(?:experience|exp|total\s*experience|years?\s*of\s*experience|work\s*experience)\s*[:]?\s*([0-9]+(?:\.[0-9]+)?)\s*(?:years?|yrs?|yr)/gi
  RegExp(Cat(<<Alt(<<Lit("experience"), Lit("exp"),
                     Cat(<<Lit("total"), Spaces, Lit("experience")>>),
                     Cat(<<Lit("year"), Opt(Lit("s")), Spaces, Lit("of"), Spaces, Lit("experience")>>),
                     Cat(<<Lit("work"), Spaces, Lit("experience")>>)>>),
               Spaces, Opt(In({":"})), Spaces, Grp(1, Number), Spaces, YearsWord>>), 1, "gi"),
  \* /([0-9]+(?:\.[0-9]+)?)\s*(?:years?|yrs?|yr)\s*(?:of\s*)?(?:experience|exp)/gi
  RegExp(Cat(<<Grp(1, Number), Spaces, YearsWord, Spaces, Opt(Cat(<<Lit("of"), Spaces>>)),
               Alt(<<Lit("experience"), Lit("exp")>>)>>), 1, "gi"),
  \* /(?:experience|exp)\s*[:]?\s*([0-9]+(?:\.[0-9]+)?)\s*(?:years?|yrs?|yr)/gi
  RegExp(Cat(<<Alt(<<Lit("experience"), Lit("exp")>>), Spaces, Opt(In({":"})), Spaces,
               Grp(1, Number), Spaces, YearsWord>>), 1, "gi") >>

\* /([0-9]+)/: the first run of digits, without a decimal part
FirstInteger == RegExp(Grp(1, Plus(In(Digit))), 1, "")

FirstNumber == RegExp(Grp(1, Number), 1, "")   \* /([0-9]+(?:\.[0-9]+)?)/

\* for (const pattern of experiencePatterns)
RECURSIVE ExperienceFrom(_, _)
ExperienceFrom(text, j) ==
  IF j > Len(experiencePatterns) THEN <<>>
  ELSE Let(matches(experiencePatterns[j], text), LAMBDA match :
       Let(SearchFrom(FirstNumber, match[1], 1), LAMBDA expMatch :
          IF Len(match) > 0 /\ expMatch.ok
          THEN Group(match[1], expMatch, 1) \o Chars(" years")
          ELSE ExperienceFrom(text, j + 1)))

ExtractExperience(text) == ExperienceFrom(text, 1)

(***************************************************************************)
(* extractResumeData: role                                                 *)
(***************************************************************************)

\* (?:current\s*role|position|job\s*title|designation|role|title)\s*[:]?\s*
RoleLabel ==
  Cat(<<Alt(<<Cat(<<Lit("current"), Spaces, Lit("role")>>), Lit("position"),
              Cat(<<Lit("job"), Spaces, Lit("title")>>), Lit("designation"), Lit("role"),
              Lit("title")>>),
        Spaces, Opt(In({":"})), Spaces>>)

rolePatterns == <<
  \* /<label>([A-Za-z\s&]+(?:engineer|developer|scientist|analyst|manager|architect|specialist|consultant|lead|senior|junior|associate))/gi
  RegExp(Cat(<<RoleLabel,
               Grp(1, Cat(<<Plus(In(Alpha \cup Space \cup {"&"})),
                            Alt(<<Lit("engineer"), Lit("developer"), Lit("scientist"),
                                  Lit("analyst"), Lit("manager"), Lit("architect"),
                                  Lit("specialist"), Lit("consultant"), Lit("lead"),
                                  Lit("senior"), Lit("junior"), Lit("associate")>>)>>))>>), 1, "gi"),
  \* /(?:software\s*engineer|data\s*scientist|full\s*stack|frontend|backend|devops|ml\s*engineer|ai\s*engineer|web\s*developer|mobile\s*developer)/gi
  RegExp(Alt(<<Cat(<<Lit("software"), Spaces, Lit("engineer")>>),
               Cat(<<Lit("data"), Spaces, Lit("scientist")>>),
               Cat(<<Lit("full"), Spaces, Lit("stack")>>),
               Lit("frontend"), Lit("backend"), Lit("devops"),
               Cat(<<Lit("ml"), Spaces, Lit("engineer")>>),
               Cat(<<Lit("ai"), Spaces, Lit("engineer")>>),
               Cat(<<Lit("web"), Spaces, Lit("developer")>>),
               Cat(<<Lit("mobile"), Spaces, Lit("developer")>>)>>), 0, "gi"),
  \* /(?:senior|junior|lead|principal)\s*(?:software\s*)?(?:engineer|developer|scientist|analyst|architect)/gi
  RegExp(Cat(<<Alt(<<Lit("senior"), Lit("junior"), Lit("lead"), Lit("principal")>>), Spaces,
               Opt(Cat(<<Lit("software"), Spaces>>)),
               Alt(<<Lit("engineer"), Lit("developer"), Lit("scientist"), Lit("analyst"),
                     Lit("architect")>>)>>), 0, "gi") >>

commonRoles == <<
  Chars("Software Engineer"), Chars("Software Developer"), Chars("Full Stack Developer"),
  Chars("Frontend Developer"), Chars("Backend Developer"), Chars("Data Scientist"),
  Chars("Data Analyst"), Chars("ML Engineer"), Chars("AI Engineer"), Chars("DevOps Engineer"),
  Chars("Mobile Developer"), Chars("Web Developer"), Chars("System Architect"),
  Chars("Product Manager"), Chars("Project Manager"), Chars("Tech Lead"),
  Chars("Senior Engineer"), Chars("Junior Engineer"), Chars("Associate Engineer") >>

RoleLabelG == RegExp(RoleLabel, 0, "gi")
OneSpace == RegExp(Lit(" "), 0, "g")

\* word.charAt(0).toUpperCase() + word.slice(1).toLowerCase()
CapitalizeWord(word) ==
  IF word = <<>> THEN <<>>
  ELSE <<UpperCh(word[1])>> \o toLowerCase(SubSeq(word, 2, Len(word)))

\* role.split(' ').map(...).join(' ')
TitleCase(role) ==
  Let(split(OneSpace, role), LAMBDA words :
     join([j \in 1..Len(words) |-> CapitalizeWord(words[j])], <<" ">>))

\* for (const pattern of rolePatterns)
RECURSIVE RoleByPattern(_, _)
RoleByPattern(text, j) ==
  IF j > Len(rolePatterns) THEN <<>>
  ELSE Let(matches(rolePatterns[j], text), LAMBDA found :
       Let(trim(replace(RoleLabelG, found[1], <<>>)), LAMBDA role :
          IF Len(found) > 0 /\ Len(role) > 3 /\ Len(role) < 50 THEN TitleCase(role)
          ELSE RoleByPattern(text, j + 1)))

\* for (const commonRole of commonRoles), in the first 2000 characters
RoleCommon(text) ==
  Let(substring(toLowerCase(text), 0, MinOf(2000, Len(text))), LAMBDA head :
  Let({j \in 1..Len(commonRoles) : includes(head, toLowerCase(commonRoles[j]))}, LAMBDA hits :
     IF hits = {} THEN <<>> ELSE commonRoles[Least(hits)]))

HasAny(s, words) == \E j \in 1..Len(words) : includes(s, words[j])

LineKeywords ==
  <<Chars("engineer"), Chars("developer"), Chars("scientist"), Chars("analyst"),
    Chars("architect"), Chars("manager")>>
WordKeywords ==
  <<Chars("engineer"), Chars("developer"), Chars("scientist"), Chars("analyst")>>

\* for (const word of words): the words longer than 2 made of letters, up
\* to and including the first that contains a keyword
RECURSIVE RoleWords(_, _)
RoleWords(words, j) ==
  IF j > Len(words) THEN <<>>
  ELSE IF Len(words[j]) > 2 /\ test(OnlyLetters, words[j])
       THEN IF HasAny(toLowerCase(words[j]), WordKeywords) THEN <<words[j]>>
            ELSE <<words[j]>> \o RoleWords(words, j + 1)
       ELSE RoleWords(words, j + 1)

RoleOfLine(line) ==
  IF HasAny(toLowerCase(line), LineKeywords)
  THEN Let(RoleWords(split(WhiteSpaceRun, line), 1), LAMBDA roleWords :
          IF Len(roleWords) > 0 /\ Len(roleWords) < 5 THEN join(roleWords, <<" ">>) ELSE <<>>)
  ELSE <<>>

RoleLineOk(line) == RoleOfLine(line) # <<>>

\* the keyword search over the first 15 lines
RoleByLine(lines) == RoleOfLine(FirstLine(lines, 15, RoleLineOk))

ExtractRole(text, lines) ==
  Let(RoleByPattern(text, 1), LAMBDA byPattern :
  Let(RoleCommon(text), LAMBDA common :
     IF byPattern # <<>> THEN byPattern
     ELSE IF common # <<>> THEN common
     ELSE RoleByLine(lines)))

(***************************************************************************)
(* extractResumeData: location                                             *)
(***************************************************************************)

CapWords == Cat(<<CapWord, Star(Cat(<<Plus(In(Space)), CapWord>>))>>)   \* [A-Z][a-z]+(?:\s+[A-Z][a-z]+)*

locationPatterns == <<
  \* /(?:location|address|city|residence|residing\s*at|place|native)\s*[:\-=]?\s*([A-Za-z\s,]+(?:,\s*[A-Za-z\s]+){0,3})/gi
  RegExp(Cat(<<Alt(<<Lit("location"), Lit("address"), Lit("city"), Lit("residence"),
                     Cat(<<Lit("residing"), Spaces, Lit("at")>>), Lit("place"), Lit("native")>>),
               Spaces, Opt(In({":", "-", "="})), Spaces,
               Grp(1, Cat(<<Plus(In(Alpha \cup Space \cup {","})),
                            Rep(Cat(<<Lit(","), Spaces, LettersAndSpace>>), 0, 3)>>))>>), 1, "gi"),
  \* /(?:^|\n)\s*(?:lives\s*in|based\s*in|from|at)\s*([A-Za-z\s,]+)/i
  RegExp(Cat(<<LineStart, Spaces,
               Alt(<<Cat(<<Lit("lives"), Spaces, Lit("in")>>),
                     Cat(<<Lit("based"), Spaces, Lit("in")>>), Lit("from"), Lit("at")>>),
               Spaces, Grp(1, Plus(In(Alpha \cup Space \cup {","})))>>), 1, "i"),
  \* /\b([A-Z][a-z]+(?:\s+[A-Z][a-z]+)*,\s*[A-Z][a-z]+(?:\s+[A-Z][a-z]+)*)\b/
  RegExp(Cat(<<WordB, Grp(1, Cat(<<CapWords, Lit(","), Spaces, CapWords>>)), WordB>>), 1, "") >>

\* match[1] of originalText.match(pattern): the second match when the
\* pattern has the g flag, capture group 1 of the first match otherwise
MatchIndex1(R, text) ==
  IF R.g
  THEN Let(matches(R, text), LAMBDA ms :
          IF Len(ms) >= 2 THEN ms[2] ELSE <<>>)
  ELSE Let(SearchFrom(R, text, 1), LAMBDA mt :
          IF mt.ok THEN Group(text, mt, 1) ELSE <<>>)

LocationOk(loc) ==
  /\ Len(loc) > 3 /\ Len(loc) < 100
  /\ ~includes(toLowerCase(loc), Chars("engineer"))
  /\ ~includes(toLowerCase(loc), Chars("developer"))

\* for (const pattern of locationPatterns)
RECURSIVE LocationFrom(_, _)
LocationFrom(text, j) ==
  IF j > Len(locationPatterns) THEN <<>>
  ELSE Let(MatchIndex1(locationPatterns[j], text), LAMBDA m1 :
          IF m1 # <<>> /\ LocationOk(trim(m1)) THEN trim(m1)
          ELSE LocationFrom(text, j + 1))

ExtractLocation(text) == LocationFrom(text, 1)

(***************************************************************************)
(* extractResumeData: links                                                *)
(***************************************************************************)

\* (?:https?:\/\/)?(?:www\.)?
UrlPrefix ==
  Cat(<<Opt(Cat(<<Lit("http"), Opt(Lit("s")), Lit("://")>>)), Opt(Lit("www."))>>)
Handle == Plus(In(AlNum \cup {"_", "-"}))                       \* [A-Za-z0-9_-]+
Token == Plus(NotIn(Space \cup {","}))                          \* [^\s\n\r,]+
LinkSep == Opt(In({":", "-", "="}))                             \* [:\-=]?
LinkedinLabel == Cat(<<Alt(<<Lit("linkedin"), Lit("lin")>>), Spaces, LinkSep, Spaces>>)
GithubLabel == Cat(<<Alt(<<Lit("github"), Lit("git")>>), Spaces, LinkSep, Spaces>>)

linkedinPatterns == <<
  \* /(?:https?:\/\/)?(?:www\.)?linkedin\.com\/in\/[A-Za-z0-9_-]+/gi
  RegExp(Cat(<<UrlPrefix, Lit("linkedin.com/in/"), Handle>>), 1, "gi"),
  \* /(?:linkedin|lin)\s*[:\-=]?\s*([^\s\n\r,]+)/i
  RegExp(Cat(<<LinkedinLabel, Grp(1, Token)>>), 1, "i") >>

githubPatterns == <<
  \* /(?:https?:\/\/)?(?:www\.)?github\.com\/[A-Za-z0-9_-]+/gi
  RegExp(Cat(<<UrlPrefix, Lit("github.com/"), Handle>>), 1, "gi"),
  \* /(?:github|git)\s*[:\-=]?\s*([^\s\n\r,]+)/i
  RegExp(Cat(<<GithubLabel, Grp(1, Token)>>), 1, "i") >>

\* /(?:portfolio|website|personal\s*site|web)\s*[:\-=]?\s*(https?:\/\/[^\s\n\r,]+)/gi
portfolioPattern ==
  RegExp(Cat(<<Alt(<<Lit("portfolio"), Lit("website"),
                     Cat(<<Lit("personal"), Spaces, Lit("site")>>), Lit("web")>>),
               Spaces, LinkSep, Spaces,
               Grp(1, Cat(<<Lit("http"), Opt(Lit("s")), Lit("://"), Token>>))>>), 1, "gi")

\* The loop over the two patterns of one site.  site is "linkedin.com" or
\* "github.com", base the profile URL that a bare handle is appended to and
\* label the label pattern that is removed (once) from the match.
\* The result is [link, li]; li is the lastIndex of the first pattern.
RECURSIVE ProfileLink(_, _, _, _, _, _, _)
ProfileLink(text, patterns, label, site, base, li, j) ==
  IF j > Len(patterns) THEN [link |-> <<>>, li |-> li]
  ELSE Let(exec(patterns[j], 0, text), LAMBDA r :
       Let(IF j = 1 THEN r.lastIndex ELSE li, LAMBDA li2 :
       Let(trim(replace(RegExp(label, 0, "i"), GroupOrMatch(text, r.mt), <<>>)), LAMBDA link :
          IF ~r.mt.ok THEN ProfileLink(text, patterns, label, site, base, li2, j + 1)
          ELSE IF includes(link, site)
          THEN [link |-> IF startsWith(link, Chars("http")) THEN link
                         ELSE Chars("https://") \o link,
                li |-> li2]
          ELSE IF Len(link) > 3 /\ ~includes(link, <<"@">>) /\ ~includes(link, <<".">>)
          THEN [link |-> base \o link, li |-> li2]
          ELSE ProfileLink(text, patterns, label, site, base, li2, j + 1))))

ExtractLinkedin(text, li) ==
  ProfileLink(text, linkedinPatterns, LinkedinLabel, Chars("linkedin.com"),
              Chars("https://www.linkedin.com/in/"), li, 1)

ExtractGithub(text, li) ==
  ProfileLink(text, githubPatterns, GithubLabel, Chars("github.com"),
              Chars("https://github.com/"), li, 1)

\* const portfolioMatch = originalText.match(portfolioPattern);
\* if (portfolioMatch) data.links.portfolio = portfolioMatch[1] || portfolioMatch[0]
ExtractPortfolio(text) ==
  Let(matches(portfolioPattern, text), LAMBDA portfolioMatch :
     IF Len(portfolioMatch) = 0 THEN <<>>
     ELSE IF Len(portfolioMatch) >= 2 /\ portfolioMatch[2] # <<>> THEN portfolioMatch[2]
     ELSE portfolioMatch[1])

(***************************************************************************)
(* extractResumeData: summary                                              *)
(***************************************************************************)

\* (?:summary|objective|professional\s*profile|about\s*me)\s*[:\-=]?\s*
SummaryLabel ==
  Cat(<<Alt(<<Lit("summary"), Lit("objective"),
              Cat(<<Lit("professional"), Spaces, Lit("profile")>>),
              Cat(<<Lit("about"), Spaces, Lit("me")>>)>>),
        Spaces, LinkSep, Spaces>>)

\* experience|skills|education|projects|work|employment|certifications|languages|hobbies|personal|$
SectionHeading ==
  Alt(<<Lit("experience"), Lit("skills"), Lit("education"), Lit("projects"), Lit("work"),
        Lit("employment"), Lit("certifications"), Lit("languages"), Lit("hobbies"),
        Lit("personal"), Eol>>)

\* the shortest and the longest summary body of the first pattern: {30,1000}
SummaryMin == 30
SummaryMax == 1000

summaryPatterns == <<
  \* /<label>([\s\S]{30,1000}?(?=\n\s*(?:experience|...|personal|$)))/gi
  RegExp(Cat(<<SummaryLabel,
               Grp(1, Cat(<<RepLazy(AnyCh, SummaryMin, SummaryMax),
                            Ahead(Cat(<<Lit("\n"), Spaces, SectionHeading>>))>>))>>), 1, "gi"),
  \* /(?:summary|objective|profile)\s*[:\-=]?\s*([^\n\r]+(?:\n[^\n\r]+){1,5})/gi
  RegExp(Cat(<<Alt(<<Lit("summary"), Lit("objective"), Lit("profile")>>), Spaces, LinkSep,
               Spaces,
               Grp(1, Cat(<<RestOfLine, Rep(Cat(<<Lit("\n"), RestOfLine>>), 1, 5)>>))>>), 1, "gi") >>

SummaryLabelG == RegExp(SummaryLabel, 0, "gi")

\* for (const pattern of summaryPatterns): pattern.exec(originalText), from
\* the pattern's lastIndex.  The result is [summary, li]; li is the
\* lastIndex of the two patterns afterwards.
RECURSIVE SummaryFrom(_, _, _)
SummaryFrom(text, li, j) ==
  IF j > Len(summaryPatterns) THEN [summary |-> <<>>, li |-> li]
  ELSE Let(exec(summaryPatterns[j], li[j], text), LAMBDA r :
       Let([li EXCEPT ![j] = r.lastIndex], LAMBDA li2 :
       Let(trim(replace(SummaryLabelG, GroupOrMatch(text, r.mt), <<>>)), LAMBDA summary :
          IF r.mt.ok /\ Len(summary) > 20 THEN [summary |-> summary, li |-> li2]
          ELSE SummaryFrom(text, li2, j + 1))))

ExtractSummary(text, li) == SummaryFrom(text, li, 1)

(***************************************************************************)
(* The birthday matcher                                                    *)
(***************************************************************************)

monthNames == <<
  Chars("January"), Chars("February"), Chars("March"), Chars("April"), Chars("May"),
  Chars("June"), Chars("July"), Chars("August"), Chars("September"), Chars("October"),
  Chars("November"), Chars("December") >>

\* String(n) for a natural number n
RECURSIVE String(_)
String(n) ==
  IF n < 10 THEN <<DigitSeq[n + 1]>> ELSE String(n \div 10) \o <<DigitSeq[(n % 10) + 1]>>

\* s.padStart(2, '0')
padStart2(s) == IF Len(s) < 2 THEN <<"0">> \o s ELSE s

\* const datePatterns = [...]
datePatterns(day, month, monthName) ==
  Let(padStart2(String(day)), LAMBDA dayStr :
  Let(padStart2(String(month)), LAMBDA monthStr :
  Let(toLowerCase(monthName), LAMBDA name :
     << dayStr \o <<"/">> \o monthStr \o <<"/">>,
        dayStr \o <<"-">> \o monthStr \o <<"-">>,
        monthStr \o <<"/">> \o dayStr \o <<"/">>,
        monthStr \o <<"-">> \o dayStr \o <<"-">>,
        dayStr \o <<"/">> \o monthStr,
        dayStr \o <<"-">> \o monthStr,
        monthStr \o <<"/">> \o dayStr,
        monthStr \o <<"-">> \o dayStr,
        dayStr \o monthStr,
        monthStr \o dayStr,
        dayStr \o <<" ">> \o name,
        name \o <<" ">> \o dayStr,
        String(day) \o <<" ">> \o name,
        name \o <<" ">> \o String(day) >>)))

\* day === 1 ? '1st' : day === 2 ? '2nd' : day === 3 ? '3rd' : `${day}th`
dayOrdinal(day) ==
  IF day = 1 THEN Chars("1st")
  ELSE IF day = 2 THEN Chars("2nd")
  ELSE IF day = 3 THEN Chars("3rd")
  ELSE String(day) \o Chars("th")

\* the filter of birthdayPeople, for one person's dob
isBirthdayToday(d, day, month, monthName) ==
  IF d = Null \/ d = <<>> THEN FALSE      \* if (!dob) return false
  ELSE Let(toLowerCase(d), LAMBDA dobLower :
       Let(datePatterns(day, month, monthName), LAMBDA patterns :
          \/ \E j \in 1..Len(patterns) : includes(dobLower, toLowerCase(patterns[j]))
          \/ /\ includes(dobLower, toLowerCase(dayOrdinal(day)))
             /\ includes(dobLower, toLowerCase(monthName))))

(***************************************************************************)
(* GET /birthdays/today                                                    *)
(***************************************************************************)

\* name: e.attachmentData?.name || 'Unknown Name'
OrElse(v, default) == IF v = Null \/ v = <<>> THEN default ELSE v

\* the field f of e.attachmentData, undefined when there is no attachmentData
AttachmentField(e, f) == IF e.hasData THEN e.attachmentData[f] ELSE Null

\* const allPeople = [...emails.map(...), ...resumes.map(...)]
allPeople(emails, resumes) ==
  [i \in 1..Len(emails) |->
     [_id |-> <<"Email", i>>,
      name |-> OrElse(AttachmentField(emails[i], "name"), Chars("Unknown Name")),
      phone |-> OrElse(AttachmentField(emails[i], "contactNumber"), Chars("No Phone")),
      dob |-> AttachmentField(emails[i], "dateOfBirth"),
      source |-> "Email"]]
  \o
  [i \in 1..Len(resumes) |->
     [_id |-> <<"Upload", i>>,
      name |-> OrElse(resumes[i].name, Chars("Unknown Name")),
      phone |-> OrElse(resumes[i].contactNumber, Chars("No Phone")),
      dob |-> resumes[i].dateOfBirth,
      source |-> "Upload"]]

\* const birthdayPeople = allPeople.filter(person => ...)
\* the copy of the filter in the birthdays endpoint, for one person's dob
isBirthdayTodayEndpoint(d, day, month, monthName) ==
  IF d = Null \/ d = <<>> THEN FALSE
  ELSE Let(toLowerCase(d), LAMBDA dobLower :
       Let(padStart2(String(day)), LAMBDA dayStr :
       Let(padStart2(String(month)), LAMBDA monthStr :
       Let(<< dayStr \o <<"/">> \o monthStr \o <<"/">>,
              dayStr \o <<"-">> \o monthStr \o <<"-">>,
              monthStr \o <<"/">> \o dayStr \o <<"/">>,
              monthStr \o <<"-">> \o dayStr \o <<"-">>,
              dayStr \o <<"/">> \o monthStr,
              dayStr \o <<"-">> \o monthStr,
              monthStr \o <<"/">> \o dayStr,
              monthStr \o <<"-">> \o dayStr,
              dayStr \o monthStr,
              monthStr \o dayStr,
              dayStr \o <<" ">> \o toLowerCase(monthName),
              toLowerCase(monthName) \o <<" ">> \o dayStr,
              String(day) \o <<" ">> \o toLowerCase(monthName),
              toLowerCase(monthName) \o <<" ">> \o String(day) >>, LAMBDA patterns :
          \/ \E j \in 1..Len(patterns) : includes(dobLower, toLowerCase(patterns[j]))
          \/ /\ includes(dobLower, toLowerCase(dayOrdinal(day)))
             /\ includes(dobLower, toLowerCase(monthName))))))

\* the script's filter without its additional check for spelled out dates
isBirthdayTodayScriptPatternsOnly(d, day, month, monthName) ==
  IF d = Null \/ d = <<>> THEN FALSE
  ELSE \E j \in 1..Len(datePatterns(day, month, monthName)) :
         includes(toLowerCase(d), toLowerCase(datePatterns(day, month, monthName)[j]))

\* the copy of the filter in the feature test script, for one person's dob
isBirthdayTodayScript(d, day, month, monthName) ==
  IF d = Null \/ d = <<>> THEN FALSE
  ELSE Let(toLowerCase(d), LAMBDA dobLower :
       Let(padStart2(String(day)), LAMBDA dayStr :
       Let(padStart2(String(month)), LAMBDA monthStr :
       Let(<< dayStr \o <<"/">> \o monthStr \o <<"/">>,
              dayStr \o <<"-">> \o monthStr \o <<"-">>,
              monthStr \o <<"/">> \o dayStr \o <<"/">>,
              monthStr \o <<"-">> \o dayStr \o <<"-">>,
              dayStr \o <<"/">> \o monthStr,
              dayStr \o <<"-">> \o monthStr,
              monthStr \o <<"/">> \o dayStr,
              monthStr \o <<"-">> \o dayStr,
              dayStr \o monthStr,
              monthStr \o dayStr,
              dayStr \o <<" ">> \o toLowerCase(monthName),
              toLowerCase(monthName) \o <<" ">> \o dayStr,
              String(day) \o <<" ">> \o toLowerCase(monthName),
              toLowerCase(monthName) \o <<" ">> \o String(day) >>, LAMBDA patterns :
          \/ \E j \in 1..Len(patterns) : includes(dobLower, toLowerCase(patterns[j]))
          \/ /\ includes(dobLower, toLowerCase(dayOrdinal(day)))
             /\ includes(dobLower, toLowerCase(monthName))))))

birthdayPeople(all, day, month) ==
  filter(all, LAMBDA person : isBirthdayTodayEndpoint(person.dob, day, month, monthNames[month]))

(***************************************************************************)
(* The input documents: sequences of fragments, rendered to the text that  *)
(* extractResumeData is called on                                          *)
(***************************************************************************)

MaxLines == 3          \* lines of a name or summary document
MaxFrags == 3          \* fragments of an email, phone or date-of-birth document
MaxMixed == 2          \* fragments of a document of the mixed family
MaxCalls == 3          \* calls of extractResumeData in one behaviour
MaxLinkFrags == 2      \* fragments of a links document
MaxPeople == 2         \* stored resumes of the birthdays endpoint

\* a fragment: its kind k, its characters s, the value v it stands for, and
\* for a date its numbers <<day, month, year>>
Frag(k, s, v, n) == [k |-> k, s |-> Chars(s), v |-> Chars(v), n |-> n]

NameFrags == {
  Frag("label", "Name: John Smith", "John Smith", <<>>),
  Frag("caps1", "JOHNDOE", "JOHN DOE", <<>>),
  Frag("caps", "ACME CORP", "ACME CORP", <<>>),
  Frag("title", "Jane Roe", "Jane Roe", <<>>),
  Frag("lead", "Mary Major, MBA", "Mary Major", <<>>),
  Frag("plain", "curriculum vitae", "", <<>>) }

EmailFrags == {
  Frag("placeholder", "foo@example.com", "foo@example.com", <<>>),
  Frag("placeholder", "Joe@Test.com", "joe@test.com", <<>>),
  Frag("addr", "bar@realdomain.io", "bar@realdomain.io", <<>>),
  Frag("addr", "Ann@Corp.org", "ann@corp.org", <<>>),
  Frag("label", "Email:", "", <<>>),
  Frag("plain", "contact", "", <<>>) }

\* addresses at a placeholder domain, at domains whose names end with one,
\* and at another domain
DomainFrags == {
  Frag("addr", "foo@example.com", "foo@example.com", <<>>),
  Frag("addr", "user@myemail.com", "user@myemail.com", <<>>),
  Frag("addr", "User@Latest.com", "user@latest.com", <<>>),
  Frag("addr", "bar@realdomain.io", "bar@realdomain.io", <<>>),
  Frag("plain", "contact", "", <<>>) }

PhoneFrags == {
  Frag("run", "123456789", "", <<9>>),
  Frag("run", "9876543210", "9876543210", <<10>>),
  Frag("run", "123456789012345", "123456789012345", <<15>>),
  Frag("run", "1234567890123456", "", <<16>>),
  Frag("label", "phone:", "", <<>>),
  Frag("plain", "contact:", "", <<>>),
  Frag("addr", "john@abc.com", "", <<>>),
  Frag("addr", "a@9876543210.com", "", <<>>) }

\* phone labels, with and without a space before the separator, and runs
LabeledPhoneFrags == {
  Frag("label", "phone:", "", <<>>),
  Frag("label", "phone :", "", <<>>),
  Frag("run", "9876543210", "9876543210", <<10>>),
  Frag("run", "1112223334", "1112223334", <<10>>),
  Frag("run", "98765+43210", "98765+43210", <<11>>) }

DobFrags == {
  Frag("label", "DOB:", "", <<>>),
  Frag("label", "Born", "", <<>>),
  Frag("date", "04/02/1995", "04/02/1995", <<4, 2, 1995>>),
  Frag("date", "04/02/2020", "04/02/2020", <<4, 2, 2020>>),
  Frag("date", "12/25/1990", "12/25/1990", <<12, 25, 1990>>),
  Frag("date", "1.1.1940", "1.1.1940", <<1, 1, 1940>>),
  Frag("plain", "x", "", <<>>) }

\* dates of birth as they are written: labels, numeric dates, a spelled date
\* and a month with a year
WrittenDobFrags == {
  Frag("label", "DOB:", "", <<>>),
  Frag("label", "Birth Date", "", <<>>),
  Frag("date", "04/02/1995", "04/02/1995", <<4, 2, 1995>>),
  Frag("date", "4-2-95", "4-2-95", <<4, 2, 95>>),
  Frag("date", "January 5, 1990", "January 5, 1990", <<5, 1, 1990>>),
  Frag("partial", "12 1990", "", <<12, 1990>>) }

\* statements of experience; v is the numeral of the fragment
ExperienceFrags == {
  Frag("labeled", "Experience: 5 years", "5", <<>>),
  Frag("counted", "3.5 yrs of experience", "3.5", <<>>),
  Frag("labeled", "exp 7 yr", "7", <<>>),
  Frag("bare", "10 years", "10", <<>>),
  Frag("plain", "worked", "", <<>>) }

\* places: after a label, after a phrase, and as a bare "City, Region"
LocationFrags == {
  Frag("labeled", "Location: Mumbai", "Mumbai", <<>>),
  Frag("labeled", "Address: Pune, India", "Pune, India", <<>>),
  Frag("phrase", "based in Goa", "Goa", <<>>),
  Frag("bare", "Delhi, India", "Delhi, India", <<>>),
  Frag("plain", "Resume", "", <<>>) }

\* role phrases: after a label, as an unlabeled pattern phrase, as a common
\* role title, and as a keyword on a line
RoleFrags == {
  Frag("labeled", "Role: data analyst", "Data Analyst", <<>>),
  Frag("title", "Software Engineer", "Software Engineer", <<>>),
  Frag("word", "frontend", "Frontend", <<>>),
  Frag("common", "Project Manager", "Project Manager", <<>>),
  Frag("keyword", "cloud architect", "cloud architect", <<>>),
  Frag("plain", "Resume", "", <<>>) }

\* fifteen non-empty lines that hold more than 2000 characters and no letter
Padding ==
  [k |-> "padding",
   s |-> join([i \in 1..15 |-> [j \in 1..140 |-> "#"]], <<"\n">>),
   v |-> <<>>, n |-> <<>>]

\* lines in capitals: one word, two, four and five words
CapsFrags == {
  Frag("caps1", "JOHNDOE", "JOHN DOE", <<>>),
  Frag("caps", "JOHN DOE", "JOHN DOE", <<>>),
  Frag("caps", "JANE ANN MARY ROE", "JANE ANN MARY ROE", <<>>),
  Frag("caps5", "MY NAME IS JOHN DOE", "", <<>>),
  Frag("plain", "Resume", "", <<>>) }

\* birth-date labels with and without a stray leading character
StrayDobFrags == {
  Frag("stray", "zDOB:", "", <<>>),
  Frag("stray", "#born", "", <<>>),
  Frag("label", "Birth -", "", <<>>),
  Frag("date", "04/02/1995", "04/02/1995", <<4, 2, 1995>>),
  Frag("date", "04/02/2020", "04/02/2020", <<4, 2, 2020>>),
  Frag("plain", "x", "", <<>>) }

SummaryFrags == {
  Frag("summary", "Objective: Motivated engineer seeking growth.",
       "Motivated engineer seeking growth.", <<>>),
  Frag("summary", "Summary: Short body.", "Short body.", <<>>),
  Frag("heading", "Experience: 5 years at X", "", <<>>),
  Frag("heading", "Skills: TLA", "", <<>>),
  Frag("plain", "I like long walks.", "", <<>>) }

\* for a links fragment n names the site of a profile: <<"linkedin">> or <<"github">>
LinkFrags == {
  Frag("url", "https://www.linkedin.com/in/jane-roe", "https://www.linkedin.com/in/jane-roe",
       <<"linkedin">>),
  Frag("url", "linkedin.com/in/jane-roe", "https://linkedin.com/in/jane-roe", <<"linkedin">>),
  Frag("url", "github.com/janeroe", "https://github.com/janeroe", <<"github">>),
  Frag("handle", "github: johndoe", "https://github.com/johndoe", <<"github">>),
  Frag("handle", "github: gitmaster", "https://github.com/gitmaster", <<"github">>),
  Frag("handle", "linkedin: jdoe", "https://www.linkedin.com/in/jdoe", <<"linkedin">>),
  Frag("dotted", "github: john.doe", "", <<"github">>),
  Frag("site", "Portfolio: https://jane.dev", "https://jane.dev", <<>>),
  Frag("plain", "contact", "", <<>>) }

MixedFrags == {
  Frag("garbled", "~~ ## !!", "", <<>>),
  Frag("garbled", "Name:", "", <<>>),
  Frag("garbled", "Email: foo@", "", <<>>),
  Frag("garbled", "DOB: 04/02/", "", <<>>),
  Frag("garbled", "linkedin.com/in/", "", <<>>),
  Frag("plain", "Senior Software Engineer", "", <<>>),
  Frag("plain", "Location: Pune, India", "", <<>>),
  Frag("plain", "GitHub: janeroe", "", <<>>),
  Frag("plain", "Portfolio: https://jane.dev", "", <<>>),
  Frag("plain", "7 years of experience", "", <<>>) }

MixedWords == {
  Frag("garbled", "@", "", <<>>),
  Frag("addr", "bar@realdomain.io", "bar@realdomain.io", <<>>),
  Frag("run", "9876543210", "9876543210", <<10>>),
  Frag("label", "DOB:", "", <<>>),
  Frag("date", "04/02/1995", "04/02/1995", <<4, 2, 1995>>) }

\* the sequences of 1..n fragments of F
RECURSIVE SeqsUpTo(_, _)
SeqsUpTo(F, n) ==
  IF n = 0 THEN {}
  ELSE LET shorter == SeqsUpTo(F, n - 1)
       IN {<<f>> : f \in F} \cup shorter \cup {Append(q, f) : q \in shorter, f \in F}

Doc(sep, frags) == [sep |-> sep, frags |-> frags]

NoDoc == Doc(<<>>, <<>>)

Docs(sep, F, n) == {Doc(sep, q) : q \in SeqsUpTo(F, n)}

NameDocs == Docs(<<"\n">>, NameFrags, MaxLines)
EmailDocs == Docs(<<" ">>, EmailFrags, MaxFrags)
DomainDocs == Docs(<<" ">>, DomainFrags, MaxFrags)
PhoneDocs == Docs(<<" ">>, PhoneFrags, MaxFrags)
LabeledPhoneDocs == Docs(<<" ">>, LabeledPhoneFrags, MaxFrags)
DobDocs == Docs(<<" ">>, DobFrags, MaxFrags)
WrittenDobDocs == Docs(<<" ">>, WrittenDobFrags, MaxFrags)
SummaryDocs == Docs(<<"\n">>, SummaryFrags, MaxLines)
RoleDocs ==
  Docs(<<"\n">>, RoleFrags, MaxLines) \cup {Doc(<<"\n">>, <<Padding, f>>) : f \in RoleFrags}
CapsDocs == Docs(<<"\n">>, CapsFrags, MaxLines)
StrayDobDocs == Docs(<<" ">>, StrayDobFrags, MaxFrags)
LocationDocs == Docs(<<" ", "|", " ">>, LocationFrags, MaxFrags)
ExperienceDocs == Docs(<<" ">>, ExperienceFrags, MaxFrags)
LinkDocs == Docs(<<" ">>, LinkFrags, MaxLinkFrags)
MixedDocs == Docs(<<"\n">>, MixedFrags, MaxMixed) \cup Docs(<<" ">>, MixedWords, MaxMixed)

\* the documents of the behaviours with several calls
PureDocs == {
  Doc(<<"\n">>, <<Frag("summary", "Objective: Motivated engineer seeking growth.",
                       "Motivated engineer seeking growth.", <<>>),
                  Frag("heading", "Skills: TLA", "", <<>>)>>),
  Doc(<<"\n">>, <<Frag("summary", "Summary: Short body.", "Short body.", <<>>),
                  Frag("plain", "I like long walks.", "", <<>>),
                  Frag("heading", "Experience: 5 years at X", "", <<>>)>>),
  Doc(<<" ">>, <<Frag("label", "DOB:", "", <<>>),
                 Frag("date", "04/02/1995", "04/02/1995", <<4, 2, 1995>>)>>),
  Doc(<<"\n">>, <<Frag("label", "Name: John Smith", "John Smith", <<>>),
                  Frag("plain", "linkedin.com/in/jane-roe", "", <<>>),
                  Frag("plain", "GitHub: janeroe", "", <<>>)>>),
  Doc(<<" ">>, <<Frag("plain", "contact:", "", <<>>),
                 Frag("addr", "john@abc.com", "", <<>>),
                 Frag("run", "9876543210", "9876543210", <<10>>)>>) }

\* the dates of birth and the days of the birthday matcher
Days == {1, 3, 4, 14, 24}
Months == {1, 2, 12}
Years == {1990, 1995}
Formats == {"d/m/yyyy", "dd/mm/yyyy", "dd-mm-yyyy", "dd-mm-yy", "d month", "month dth",
            "d month yyyy"}

\* the English ordinal of a day of the month
Ordinal(d) ==
  String(d) \o (IF d \in {1, 21, 31} THEN Chars("st")
                ELSE IF d \in {2, 22} THEN Chars("nd")
                ELSE IF d \in {3, 23} THEN Chars("rd")
                ELSE Chars("th"))

\* a date of birth as it is written in format f
Encode(f, d, m, y) ==
  Let(toLowerCase(monthNames[m]), LAMBDA month :
     CASE f = "d/m/yyyy" -> String(d) \o <<"/">> \o String(m) \o <<"/">> \o String(y)
       [] f = "dd/mm/yyyy" ->
            padStart2(String(d)) \o <<"/">> \o padStart2(String(m)) \o <<"/">> \o String(y)
       [] f = "dd-mm-yyyy" ->
            padStart2(String(d)) \o <<"-">> \o padStart2(String(m)) \o <<"-">> \o String(y)
       [] f = "dd-mm-yy" ->
            padStart2(String(d)) \o <<"-">> \o padStart2(String(m)) \o <<"-">>
              \o padStart2(String(y % 100))
       [] f = "d month" -> String(d) \o <<" ">> \o month
       [] f = "month dth" -> month \o <<" ">> \o Ordinal(d)
       [] f = "d month yyyy" -> String(d) \o <<" ">> \o month \o <<" ">> \o String(y))

BirthdayDocs ==
  {NoDoc} \cup
  { Doc(<<>>, <<[k |-> f, s |-> Encode(f, d, m, y), v |-> <<>>, n |-> <<d, m, y>>]>>) :
      f \in Formats, d \in Days, m \in Months, y \in Years }

\* the stored dates of birth of the birthdays endpoint; n is <<day, month>>
StoredDobs == {
  Frag("d/month", "4/february", "", <<4, 2>>),
  Frag("d/month", "14/february", "", <<14, 2>>),
  Frag("dd/Month", "01/January", "", <<1, 1>>),
  Frag("dd/mm/yyyy", "04/02/1995", "", <<4, 2>>) }

\* the stored Resume documents: name, contactNumber and dateOfBirth may be missing
Resumes ==
  {[name |-> Chars("John Doe"), contactNumber |-> Chars("+1234567890"), dateOfBirth |-> f.s] :
     f \in StoredDobs}
  \cup {[name |-> Chars("Jane Smith"), contactNumber |-> Chars("+0987654321"), dateOfBirth |-> Null],
        [name |-> <<>>, contactNumber |-> <<>>, dateOfBirth |-> Chars("4/february")]}

\* the stored Email documents with an attachment, with or without attachmentData
Emails ==
  {[hasData |-> FALSE, attachmentData |-> Null],
   [hasData |-> TRUE,
    attachmentData |-> [name |-> Chars("Mary Major"), contactNumber |-> <<>>,
                        dateOfBirth |-> Chars("04/02/1995")]]}

NoPeople == [emails |-> <<>>, resumes |-> <<>>]
NoResponse == [status |-> 0]

\* the text of a document
Render(d) == join([i \in 1..Len(d.frags) |-> d.frags[i].s], d.sep)

(***************************************************************************)
(* The state machine                                                       *)
(***************************************************************************)

VARIABLES
  doc,        \* the document the current text was rendered from (a history variable)
  text,       \* the argument of the current call of extractResumeData
  pc,         \* the position of the current call
  data,       \* the profile under construction
  lastIndex,  \* the lastIndex of the RegExp objects that exec is called on
  returned,   \* the calls that returned: <<[text, data]>>, in order
  today,      \* the birthday matcher: <<day, month>>
  dob,        \* the birthday matcher: the stored dateOfBirth
  verdict,    \* the birthday matcher: what the filter returned (FALSE before it ran)
  people,     \* GET /birthdays/today: the stored records, [emails, resumes]
  response    \* GET /birthdays/today: the response (status 0 before it is sent)

VARIABLES
  stored,           \* the Email collection: the saved records, in the order of saving
  processedEmails,  \* the in-memory set of processed UIDs
  redis,            \* the UIDs marked as processed in Redis
  inbox,            \* per account, how many of today's messages have arrived
  runs,             \* the calls of processEmail, in the order they started
  listening,        \* the accounts whose timer and 'mail' listener are set up
  log,              \* what the service logged about a message: <<event, account, uid>>
  attempts,         \* per account, the attempts to start monitoring
  server            \* per account, how the IMAP server answers a connection

parserVars == <<doc, text, pc, data, lastIndex, returned, today, dob, verdict, people, response>>
mailVars == <<stored, processedEmails, redis, inbox, runs, listening, log, attempts, server>>

vars ==
  <<doc, text, pc, data, lastIndex, returned, today, dob, verdict, people, response,
    stored, processedEmails, redis, inbox, runs, listening, log, attempts, server>>

\* the accounts that startMonitoring configures
Accounts == {"Primary", "Outlook"}

\* what calls processEmail: the scan after connecting, the 5-minute timer
\* and the 'mail' event
Triggers == {"startup", "timer", "mail"}

\* today's messages of each account, by UID, in the order of arrival: IMAP
\* numbers the messages of each mailbox on its own, so the one message of
\* each inbox has the same UID
Mailbox == [a \in Accounts |-> <<1>>]

MaxRuns == 3
MaxStale == 1
MaxInstances == 2

\* const emailId = `uid_${uid}`
emailId(uid) == Chars("uid_") \o String(uid)

\* Email.findOne({ emailId })
findOne(docs, id) == \E i \in 1..Len(docs) : docs[i].emailId = id

\* a save that does not consult the unique index on emailId
saveWithoutUniqueIndex(docs, record) == [ok |-> TRUE, docs |-> Append(docs, record)]

\* email.save() under the unique index on emailId: a second record with
\* the same emailId is rejected with a duplicate key error
save(docs, record) ==
  IF findOne(docs, record.emailId) THEN [ok |-> FALSE, docs |-> docs]
  ELSE [ok |-> TRUE, docs |-> Append(docs, record)]

\* if (processedEmails.has(uid)) return, for the messages in turn: the
\* messages from the first that is not in the set
RECURSIVE SkipProcessed(_, _)
SkipProcessed(messages, processed) ==
  IF messages = <<>> THEN <<>>
  ELSE IF Head(messages) \in processed THEN SkipProcessed(Tail(messages), processed)
  ELSE messages

\* the loop of processEmail goes on with the given messages: those in the
\* in-memory set are skipped at once, the first other one waits for Redis
Continue(run, messages, processed) ==
  [run EXCEPT !.messages = SkipProcessed(messages, processed),
              !.pc = IF SkipProcessed(messages, processed) = <<>> THEN "done" ELSE "redis"]

\* the log lines of the messages skipped by Continue
SkippedInMemory(a, messages, processed) ==
  {<<"skipped", a, messages[i]>> :
     i \in 1..(Len(messages) - Len(SkipProcessed(messages, processed)))}

\* after the startup scan the timer and the 'mail' listener are set up
ListeningAfter(run) ==
  IF run.trigger = "startup" /\ run.pc = "done" THEN listening \cup {run.account}
  ELSE listening

\* the messages that a fetch finds in the inbox of the account
Fetched(a) == SubSeq(Mailbox[a], 1, inbox[a])

\* a message arrives in the inbox of the account
Arrives(a) ==
  /\ pc = "monitoring"
  /\ inbox[a] < Len(Mailbox[a])
  /\ inbox' = [inbox EXCEPT ![a] = @ + 1]
  /\ UNCHANGED <<parserVars, stored, processedEmails, redis, runs, listening, log, attempts,
                 server>>

\* processEmail(connection, io, name): the messages are fetched and the
\* loop reaches its first message that is not in the in-memory set
ProcessEmail(a, t) ==
  /\ pc = "monitoring"
  /\ Len(runs) < MaxRuns
  /\ t = "startup" \/ a \in listening
  /\ LET run == Continue([account |-> a, trigger |-> t, messages |-> <<>>, pc |-> "done"],
                         Fetched(a), processedEmails)
     IN /\ runs' = Append(runs, run)
        /\ listening' = ListeningAfter(run)
  /\ log' = log \cup SkippedInMemory(a, Fetched(a), processedEmails)
  /\ UNCHANGED <<parserVars, stored, processedEmails, redis, inbox, attempts, server>>

\* processIndividualEmail: redisService.isEmailProcessed(uid) answers, or
\* throws and the message is processed all the same
IsEmailProcessed(i) ==
  /\ i \in DOMAIN runs /\ runs[i].pc = "redis"
  /\ LET run == runs[i]
         uid == Head(run.messages)
     IN \/ /\ uid \in redis
           /\ processedEmails' = processedEmails \cup {uid}
           /\ LET next == Continue(run, Tail(run.messages), processedEmails')
              IN /\ runs' = [runs EXCEPT ![i] = next]
                 /\ listening' = ListeningAfter(next)
           /\ log' = log \cup {<<"skipped", run.account, uid>>}
                         \cup SkippedInMemory(run.account, Tail(run.messages), processedEmails')
        \/ /\ runs' = [runs EXCEPT ![i].pc = "find"]
           /\ UNCHANGED <<processedEmails, listening, log>>
  /\ UNCHANGED <<parserVars, stored, redis, inbox, attempts, server>>

\* processEmailContent: Email.findOne({ emailId }) answers
FindExisting(i) ==
  /\ i \in DOMAIN runs /\ runs[i].pc = "find"
  /\ runs' = [runs EXCEPT ![i].pc = IF findOne(stored, emailId(Head(runs[i].messages)))
                                    THEN "mark" ELSE "save"]
  /\ UNCHANGED <<parserVars, stored, processedEmails, redis, inbox, listening, log, attempts,
                 server>>

\* processEmailContent: email.save() answers; an error is thrown on to
\* processIndividualEmail, which logs it and returns
SaveEmail(i) ==
  /\ i \in DOMAIN runs /\ runs[i].pc = "save"
  /\ LET run == runs[i]
         uid == Head(run.messages)
         saved == save(stored, [emailId |-> emailId(uid), account |-> run.account])
     IN /\ stored' = saved.docs
        /\ IF saved.ok
           THEN /\ runs' = [runs EXCEPT ![i].pc = "mark"]
                /\ log' = log \cup {<<"saved", run.account, uid>>}
                /\ UNCHANGED listening
           ELSE /\ LET next == Continue(run, Tail(run.messages), processedEmails)
                   IN /\ runs' = [runs EXCEPT ![i] = next]
                      /\ listening' = ListeningAfter(next)
                /\ log' = log \cup {<<"duplicate", run.account, uid>>}
                              \cup SkippedInMemory(run.account, Tail(run.messages), processedEmails)
  /\ UNCHANGED <<parserVars, processedEmails, redis, inbox, attempts, server>>

\* markAsProcessed: redisService.markEmailProcessed(uid) answers or throws
MarkAsProcessed(i) ==
  /\ i \in DOMAIN runs /\ runs[i].pc = "mark"
  /\ redis' \in {redis, redis \cup {Head(runs[i].messages)}}
  /\ runs' = [runs EXCEPT ![i].pc = "add"]
  /\ UNCHANGED <<parserVars, stored, processedEmails, inbox, listening, log, attempts, server>>

\* markAsProcessed: processedEmails.add(uid); the loop goes on
AddProcessed(i) ==
  /\ i \in DOMAIN runs /\ runs[i].pc = "add"
  /\ LET run == runs[i]
         uid == Head(run.messages)
     IN /\ processedEmails' = processedEmails \cup {uid}
        /\ LET next == Continue(run, Tail(run.messages), processedEmails')
           IN /\ runs' = [runs EXCEPT ![i] = next]
              /\ listening' = ListeningAfter(next)
        /\ log' = log \cup {<<"marked", run.account, uid>>}
                      \cup SkippedInMemory(run.account, Tail(run.messages), processedEmails')
  /\ UNCHANGED <<parserVars, stored, redis, inbox, attempts, server>>

NextMail ==
  \/ \E a \in Accounts : Arrives(a)
  \/ \E a \in Accounts, t \in Triggers : ProcessEmail(a, t)
  \/ \E i \in 1..MaxRuns : IsEmailProcessed(i)
  \/ \E i \in 1..MaxRuns : FindExisting(i)
  \/ \E i \in 1..MaxRuns : SaveEmail(i)
  \/ \E i \in 1..MaxRuns : MarkAsProcessed(i)
  \/ \E i \in 1..MaxRuns : AddProcessed(i)

\* no call of startAccountMonitoringWithTimeout was made for the account
NoAttempt == [race |-> "none", stale |-> 0, instances |-> 0, failed |-> FALSE]

MailFrame ==
  UNCHANGED <<parserVars, stored, processedEmails, redis, inbox, runs, listening, log>>

\* startAccountMonitoringWithTimeout(account, io): startAccountMonitoring
\* is raced against the 30-second timer
StartAccountMonitoringWithTimeout(a) ==
  /\ pc = "monitoring"
  /\ attempts[a].race = "none"
  /\ attempts' = [attempts EXCEPT ![a].race = "pending"]
  /\ UNCHANGED server /\ MailFrame

\* startAccountMonitoring returns after connecting, opening the inbox, the
\* first scan and setting up the timer and the listener: the race is won
Connected(a) ==
  /\ attempts[a].race = "pending" /\ server[a] = "accepting"
  /\ attempts[a].instances < MaxInstances
  /\ attempts' = [attempts EXCEPT ![a].race = "settled", ![a].instances = @ + 1]
  /\ UNCHANGED server /\ MailFrame

\* imap.connect or openBox throws: the catch of startAccountMonitoring logs
\* the error and the function returns normally, so the race is won as well
ConnectFailed(a) ==
  /\ attempts[a].race = "pending" /\ server[a] = "refusing"
  /\ attempts' = [attempts EXCEPT ![a].race = "settled", ![a].failed = TRUE]
  /\ UNCHANGED server /\ MailFrame

\* the 30-second timer fires first: the catch of
\* startAccountMonitoringWithTimeout sets the 60-second timer; the call of
\* startAccountMonitoring goes on in the background
ConnectionTimeout(a) ==
  /\ attempts[a].race = "pending"
  /\ attempts[a].stale < MaxStale
  /\ attempts' = [attempts EXCEPT ![a].race = "retry", ![a].stale = @ + 1,
                                  ![a].failed = TRUE]
  /\ UNCHANGED server /\ MailFrame

\* the 60-second timer fires: startAccountMonitoringWithTimeout again
RetryConnection(a) ==
  /\ attempts[a].race = "retry"
  /\ attempts' = [attempts EXCEPT ![a].race = "pending"]
  /\ UNCHANGED server /\ MailFrame

\* a call of startAccountMonitoring that lost its race comes to its end
LateConnected(a) ==
  /\ attempts[a].stale > 0 /\ server[a] = "accepting"
  /\ attempts[a].instances < MaxInstances
  /\ attempts' = [attempts EXCEPT ![a].stale = @ - 1, ![a].instances = @ + 1]
  /\ UNCHANGED server /\ MailFrame

LateFailed(a) ==
  /\ attempts[a].stale > 0 /\ server[a] = "refusing"
  /\ attempts' = [attempts EXCEPT ![a].stale = @ - 1]
  /\ UNCHANGED server /\ MailFrame

\* the IMAP server of the account starts or stops accepting connections
ServerChanges(a) ==
  /\ pc = "monitoring"
  /\ server' = [server EXCEPT ![a] = IF @ = "accepting" THEN "refusing" ELSE "accepting"]
  /\ UNCHANGED attempts /\ MailFrame

NextMonitor ==
  \/ \E a \in Accounts : StartAccountMonitoringWithTimeout(a)
  \/ \E a \in Accounts : Connected(a)
  \/ \E a \in Accounts : ConnectFailed(a)
  \/ \E a \in Accounts : ConnectionTimeout(a)
  \/ \E a \in Accounts : RetryConnection(a)
  \/ \E a \in Accounts : LateConnected(a)
  \/ \E a \in Accounts : LateFailed(a)
  \/ \E a \in Accounts : ServerChanges(a)

\* the mail service before startMonitoring
MailIdle ==
  /\ stored = <<>>
  /\ processedEmails = {}
  /\ redis = {}
  /\ inbox = [a \in Accounts |-> 0]
  /\ runs = <<>>
  /\ listening = {}
  /\ log = {}
  /\ attempts = [a \in Accounts |-> NoAttempt]
  /\ server = [a \in Accounts |-> "accepting"]

\* the RegExp objects when the function is entered: every regular
\* expression literal is evaluated in the function body, so each call has
\* new objects with lastIndex 0
NewRegExps == [dob |-> <<0, 0, 0>>, linkedin |-> 0, github |-> 0, summary |-> <<0, 0>>]

\* the RegExp objects of a function whose patterns are created once, outside
\* the function body: a call finds them as the call before left them
RegExpsKeptAcrossCalls(li) == li

RegExpsAtEntry(li) == NewRegExps

\* the guard without its test for a missing text
IsEmptyInputOfStringOnly(t) == t # Null /\ Len(t) = 0

\* if (!text || text.length === 0)
IsEmptyInput(t) == t = Null \/ Len(t) = 0

\* function entry: the default profile and the empty-input return
Enter ==
  /\ pc = "enter"
  /\ data' = EmptyProfile
  /\ lastIndex' = RegExpsAtEntry(lastIndex)
  /\ pc' = IF IsEmptyInput(text) THEN "return"
           ELSE IF text = Null THEN "raised"     \* null.split: a TypeError
           ELSE "name1"
  /\ UNCHANGED <<doc, text, returned, today, dob, verdict, people, response, mailVars>>

Frame == UNCHANGED <<doc, text, lastIndex, returned, today, dob, verdict, people, response, mailVars>>

Name1 ==
  /\ pc = "name1"
  /\ data' = [data EXCEPT !.name = NameStrategy1(@, text)]
  /\ pc' = "name2"
  /\ Frame

Name2 ==
  /\ pc = "name2"
  /\ data' = [data EXCEPT !.name = NameStrategy2(@, Lines(text))]
  /\ pc' = "name2b"
  /\ Frame

Name2b ==
  /\ pc = "name2b"
  /\ data' = [data EXCEPT !.name = NameStrategy2b(@, Lines(text))]
  /\ pc' = "name3"
  /\ Frame

Name3 ==
  /\ pc = "name3"
  /\ data' = [data EXCEPT !.name = NameStrategy3(@, Lines(text))]
  /\ pc' = "name4"
  /\ Frame

Name4 ==
  /\ pc = "name4"
  /\ data' = [data EXCEPT !.name = NameStrategy4(@, text)]
  /\ pc' = "email"
  /\ Frame

\* the email step when it also stores the address as the education
EmailIntoEducation ==
  /\ pc = "email"
  /\ data' = [data EXCEPT !.email = ExtractEmail(text), !.education = ExtractEmail(text)]
  /\ pc' = "contact"
  /\ Frame

Email ==
  /\ pc = "email"
  /\ data' = [data EXCEPT !.email = ExtractEmail(text)]
  /\ pc' = "contact"
  /\ Frame

Contact ==
  /\ pc = "contact"
  /\ data' = [data EXCEPT !.contactNumber = ExtractContactNumber(text)]
  /\ pc' = "dob"
  /\ Frame

DateOfBirth ==
  /\ pc = "dob"
  /\ LET r == ExtractDateOfBirth(text, lastIndex.dob)
     IN /\ data' = [data EXCEPT !.dateOfBirth = r.dob]
        /\ lastIndex' = [lastIndex EXCEPT !.dob = r.li]
  /\ pc' = "experience"
  /\ UNCHANGED <<doc, text, returned, today, dob, verdict, people, response, mailVars>>

Experience ==
  /\ pc = "experience"
  /\ data' = [data EXCEPT !.experience = ExtractExperience(text)]
  /\ pc' = "role"
  /\ Frame

Role ==
  /\ pc = "role"
  /\ data' = [data EXCEPT !.role = ExtractRole(text, Lines(text))]
  /\ pc' = "location"
  /\ Frame

Location ==
  /\ pc = "location"
  /\ data' = [data EXCEPT !.location = ExtractLocation(text)]
  /\ pc' = "links"
  /\ Frame

Links ==
  /\ pc = "links"
  /\ LET ln == ExtractLinkedin(text, lastIndex.linkedin)
         gh == ExtractGithub(text, lastIndex.github)
     IN /\ data' = [data EXCEPT !.links = [linkedin |-> ln.link, github |-> gh.link,
                                           portfolio |-> ExtractPortfolio(text)]]
        /\ lastIndex' = [lastIndex EXCEPT !.linkedin = ln.li, !.github = gh.li]
  /\ pc' = "summary"
  /\ UNCHANGED <<doc, text, returned, today, dob, verdict, people, response, mailVars>>

Summary ==
  /\ pc = "summary"
  /\ LET r == ExtractSummary(text, lastIndex.summary)
     IN /\ data' = [data EXCEPT !.summary = r.summary]
        /\ lastIndex' = [lastIndex EXCEPT !.summary = r.li]
  /\ pc' = "return"
  /\ UNCHANGED <<doc, text, returned, today, dob, verdict, people, response, mailVars>>

\* return data
Return ==
  /\ pc = "return"
  /\ returned' = Append(returned, [text |-> text, data |-> data])
  /\ pc' = "done"
  /\ UNCHANGED <<doc, text, data, lastIndex, today, dob, verdict, people, response, mailVars>>

Next ==
  \/ Enter \/ Name1 \/ Name2 \/ Name2b \/ Name3 \/ Name4 \/ Email \/ Contact
  \/ DateOfBirth \/ Experience \/ Role \/ Location \/ Links \/ Summary \/ Return

\* another call, after the previous one returned
Call ==
  /\ pc = "done"
  /\ Len(returned) < MaxCalls
  /\ \E d \in PureDocs :
       /\ doc' = d
       /\ text' = Render(d)
  /\ pc' = "enter"
  /\ UNCHANGED <<data, lastIndex, returned, today, dob, verdict, people, response, mailVars>>

NextPure == Next \/ Call

\* the filter of birthdayPeople applied to one person
CheckBirthday ==
  /\ pc = "birthday"
  /\ verdict' = isBirthdayToday(dob, today[1], today[2], monthNames[today[2]])
  /\ pc' = "checked"
  /\ UNCHANGED <<doc, text, data, lastIndex, returned, today, dob, people, response, mailVars>>

NextBirthday == CheckBirthday

\* router.get('/birthdays/today', ...): the response with the people whose
\* date of birth the filter accepts, or status 500 when a query throws.  The
\* date field of the response, the UTC calendar date of the request, is not
\* determined by the local day and month and is left out.
GetBirthdaysToday ==
  /\ pc = "request"
  /\ \/ Let(birthdayPeople(allPeople(people.emails, people.resumes), today[1], today[2]),
            LAMBDA found :
               response' = [status |-> 200, count |-> Len(found), birthdays |-> found])
     \/ response' = [status |-> 500]
  /\ pc' = "responded"
  /\ UNCHANGED <<doc, text, data, lastIndex, returned, today, dob, verdict, people, mailVars>>

NextEndpoint == GetBirthdaysToday

\* a first call of extractResumeData on the text of a document of D
Start(D) ==
  /\ doc \in D
  /\ text = Render(doc)
  /\ pc = "enter"
  /\ data = EmptyProfile
  /\ lastIndex = NewRegExps
  /\ returned = <<>>
  /\ today = <<1, 1>>
  /\ dob = Null
  /\ verdict = FALSE
  /\ people = NoPeople
  /\ response = NoResponse
  /\ MailIdle

\* any text: a mixed document, the empty text, or no text at all
Init ==
  \/ Start(MixedDocs)
  \/ /\ doc = NoDoc
     /\ text \in {Null, <<>>}
     /\ pc = "enter"
     /\ data = EmptyProfile
     /\ lastIndex = NewRegExps
     /\ returned = <<>>
     /\ today = <<1, 1>>
     /\ dob = Null
     /\ verdict = FALSE
     /\ people = NoPeople
     /\ response = NoResponse
     /\ MailIdle

\* the mail service when the server starts: no call of extractResumeData
\* is under way, nothing is stored or processed
InitMail ==
  /\ pc = "monitoring"
  /\ doc = NoDoc
  /\ text = Null
  /\ data = EmptyProfile
  /\ lastIndex = NewRegExps
  /\ returned = <<>>
  /\ today = <<1, 1>>
  /\ dob = Null
  /\ verdict = FALSE
  /\ people = NoPeople
  /\ response = NoResponse
  /\ MailIdle

InitName == Start(NameDocs)
InitEmail == Start(EmailDocs)
InitDomain == Start(DomainDocs)
InitPhone == Start(PhoneDocs)
InitLabeledPhone == Start(LabeledPhoneDocs)
InitDob == Start(DobDocs)
InitWrittenDob == Start(WrittenDobDocs)
InitSummary == Start(SummaryDocs)
InitLocation == Start(LocationDocs)
InitStrayDob == Start(StrayDobDocs)
InitCaps == Start(CapsDocs)
InitRole == Start(RoleDocs)
InitExperience == Start(ExperienceDocs)
InitLinks == Start(LinkDocs)
InitPure == Start(PureDocs)

\* a person with a stored date of birth, on some day of the year
InitBirthday ==
  /\ doc \in BirthdayDocs
  /\ dob = (IF doc = NoDoc THEN Null ELSE Render(doc))
  /\ today \in Days \X Months
  /\ verdict = FALSE
  /\ people = NoPeople
  /\ response = NoResponse
  /\ MailIdle
  /\ pc = "birthday"
  /\ text = Null
  /\ data = EmptyProfile
  /\ lastIndex = NewRegExps
  /\ returned = <<>>

\* a request on some day of the year, over some stored records
InitEndpoint ==
  /\ people \in [emails : {<<>>} \cup {<<e>> : e \in Emails},
                 resumes : {<<>>} \cup SeqsUpTo(Resumes, MaxPeople)]
  /\ today \in Days \X Months
  /\ response = NoResponse
  /\ MailIdle
  /\ pc = "request"
  /\ doc = NoDoc
  /\ text = Null
  /\ data = EmptyProfile
  /\ lastIndex = NewRegExps
  /\ returned = <<>>
  /\ dob = Null
  /\ verdict = FALSE

Spec == Init /\ [][Next]_vars
SpecName == InitName /\ [][Next]_vars
SpecEmail == InitEmail /\ [][Next]_vars
SpecDomain == InitDomain /\ [][Next]_vars
SpecPhone == InitPhone /\ [][Next]_vars
SpecLabeledPhone == InitLabeledPhone /\ [][Next]_vars
SpecDob == InitDob /\ [][Next]_vars
SpecWrittenDob == InitWrittenDob /\ [][Next]_vars
SpecSummary == InitSummary /\ [][Next]_vars
SpecLocation == InitLocation /\ [][Next]_vars
SpecMail == InitMail /\ [][NextMail]_vars
SpecMonitor == InitMail /\ [][NextMonitor]_vars
\* imap.connect settles and the 60-second timer fires; how long a
\* connection takes and what the server does are up to the environment
FairSpecMonitor ==
  /\ SpecMonitor
  /\ \A a \in Accounts :
       /\ WF_vars(StartAccountMonitoringWithTimeout(a))
       /\ WF_vars(Connected(a))
       /\ WF_vars(ConnectFailed(a))
       /\ WF_vars(RetryConnection(a))
       /\ WF_vars(LateConnected(a))
       /\ WF_vars(LateFailed(a))
SpecStrayDob == InitStrayDob /\ [][Next]_vars
SpecCaps == InitCaps /\ [][Next]_vars
SpecRole == InitRole /\ [][Next]_vars
SpecExperience == InitExperience /\ [][Next]_vars
SpecLinks == InitLinks /\ [][Next]_vars
SpecPure == InitPure /\ [][NextPure]_vars
SpecBirthday == InitBirthday /\ [][NextBirthday]_vars
SpecEndpoint == InitEndpoint /\ [][NextEndpoint]_vars

(***************************************************************************)
(* Properties                                                              *)
(***************************************************************************)

Fields == {"name", "email", "contactNumber", "dateOfBirth", "experience", "role", "location",
           "skills", "education", "summary", "links"}

StringFields == Fields \ {"skills", "links"}

LinkFields == {"linkedin", "github", "portfolio"}

IsString(v) == v # Null /\ v \in Seq(STRING)

\* a profile with every declared field, of the declared type
WellFormed(d) ==
  /\ DOMAIN d = Fields
  /\ \A f \in StringFields : IsString(d[f])
  /\ d.skills \in Seq(STRING)
  /\ DOMAIN d.links = LinkFields
  /\ \A f \in LinkFields : IsString(d.links[f])

HasDigit(t) == \E i \in 1..Len(t) : t[i] \in Digit

OnlyGarbled(d) == \A i \in 1..Len(d.frags) : d.frags[i].s = Chars("~~ ## !!")

\* the positions of a call from which it goes on: each has one step, taken
\* whatever the text is
Positions == {"enter", "name1", "name2", "name2b", "name3", "name4", "email", "contact", "dob",
              "experience", "role", "location", "links", "summary", "return"}

\* C1: for every input text, the empty text and no text included, the call
\* never raises and is at a position from which it goes on until it has
\* returned; the profile it returns has
\* every declared field with its declared type; the fields that nothing in
\* the text can match (email without an at sign, number, date and experience
\* without a digit, skills and education always, everything in a text of
\* punctuation) are empty; for the empty text and for no text every field is
\* empty
C1_ProfileAlwaysWellFormed ==
  /\ pc # "raised"
  /\ pc \in Positions \cup {"done"}
  /\ WellFormed(data)
  /\ pc = "done" =>
       /\ returned = <<[text |-> text, data |-> data]>>
       /\ data.skills = <<>> /\ data.education = <<>>
       /\ text \in {Null, <<>>} => data = EmptyProfile
       /\ text \notin {Null, <<>>} =>
            /\ ~includes(text, <<"@">>) => data.email = <<>>
            /\ ~HasDigit(text) =>
                 data.contactNumber = <<>> /\ data.dateOfBirth = <<>> /\ data.experience = <<>>
            /\ OnlyGarbled(doc) => data = EmptyProfile

\* a call without a text has returned the empty profile
C1_Witness ==
  /\ pc = "done"
  /\ text = Null
  /\ returned = <<[text |-> Null, data |-> EmptyProfile]>>


\* C2: the profile is a function of the text alone: any two calls on the
\* same text returned the same profile, whatever calls on other texts ran
\* before or between them, and every call starts with the match positions
\* of all its regular expressions at zero
C2_SameTextSameProfile ==
  /\ \A i, j \in 1..Len(returned) :
       returned[i].text = returned[j].text => returned[i].data = returned[j].data
  /\ pc = "name1" => lastIndex = NewRegExps

\* the first and the third call were on the same text, which has a summary,
\* with a call on another text in between
C2_Witness ==
  /\ Len(returned) = 3
  /\ returned[1].text = returned[3].text
  /\ returned[2].text # returned[1].text
  /\ returned[1].data.summary # <<>>
  /\ returned[2].data.dateOfBirth # <<>>


\* the first fragment of a document d among its first n whose kind is in K,
\* as the sequence of its index, or <<>>
FirstOf(d, n, K) ==
  LET I == {i \in 1..Len(d.frags) : i <= n /\ d.frags[i].k \in K}
  IN IF I = {} THEN <<>> ELSE <<Least(I)>>

\* what each name strategy finds in a document, in the order of the cascade
NameFound(d) ==
  LET label == FirstOf(d, Len(d.frags), {"label"})
      caps == FirstOf(d, 5, {"caps"})
      title == FirstOf(d, 10, {"title"})
      firstLast == FirstOf(d, Len(d.frags), {"title", "lead"})
  IN << IF label # <<>> THEN d.frags[label[1]].v ELSE <<>>,
        IF d.frags[1].k \in {"caps", "caps1"} THEN d.frags[1].v ELSE <<>>,
        IF caps # <<>> THEN d.frags[caps[1]].s ELSE <<>>,
        IF title # <<>> THEN d.frags[title[1]].s ELSE <<>>,
        IF firstLast # <<>> THEN d.frags[firstLast[1]].v ELSE <<>> >>

\* the result of the first of the first n strategies that finds a name
ExpectedName(d, n) ==
  LET found == NameFound(d)
      I == {i \in 1..n : found[i] # <<>>}
  IN IF I = {} THEN <<>> ELSE found[Least(I)]

\* the number of name strategies that ran before position p
StrategiesRun(p) ==
  CASE p \in {"enter", "name1"} -> 0
    [] p = "name2" -> 1
    [] p = "name2b" -> 2
    [] p = "name3" -> 3
    [] p = "name4" -> 4
    [] OTHER -> 5

\* C3: the name strategies run in the order labeled pattern, first line in
\* capitals, line of several words in capitals, line of capitalized words,
\* First-Last pattern; at every position of the call the name is what the
\* first successful strategy among those that ran found, so no later
\* strategy overwrites it; a `Name:` label wins over a first line in capitals
C3_NameOfFirstSuccessfulStrategy ==
  data.name = ExpectedName(doc, StrategiesRun(pc))

\* the text has a first line in capitals and a later `Name:` label, and the
\* call returned the labeled name
C3_Witness ==
  /\ pc = "done"
  /\ Len(doc.frags) >= 2
  /\ doc.frags[1].k = "caps"
  /\ doc.frags[2].k = "label"
  /\ data.name = Chars("John Smith")


\* the dates of a document that directly follow a DOB label
LabeledDates(d) ==
  {i \in 2..Len(d.frags) : d.frags[i].k = "date" /\ d.frags[i - 1].k = "label"}

\* the dates d/m/y of a document with 1 <= d <= 31, 1 <= m <= 12 and
\* 1940 <= y <= 2015
ValidDates(d) ==
  {i \in 1..Len(d.frags) :
     /\ d.frags[i].k = "date"
     /\ d.frags[i].n[1] \in 1..31
     /\ d.frags[i].n[2] \in 1..12
     /\ d.frags[i].n[3] \in 1940..2015}

ExpectedDateOfBirth(d) ==
  IF LabeledDates(d) # {} THEN d.frags[Least(LabeledDates(d))].s
  ELSE IF ValidDates(d) # {} THEN d.frags[Least(ValidDates(d))].s
  ELSE <<>>

AfterDateOfBirth ==
  {"experience", "role", "location", "links", "summary", "return", "done"}

\* C7: the date of birth is the first numeric date that follows a DOB
\* label, whatever its year and wherever it is in the text; without a
\* labeled date it is the first numeric date d/m/y with 1 <= d <= 31,
\* 1 <= m <= 12 and 1940 <= y <= 2015; without either it is empty
C7_LabeledDateThenValidDate ==
  pc \in AfterDateOfBirth => data.dateOfBirth = ExpectedDateOfBirth(doc)

\* an unlabeled date of 1995 comes first and a labeled date of 2020 later:
\* the call returned the labeled one
C7_Witness ==
  /\ pc = "done"
  /\ Len(doc.frags) = 3
  /\ doc.frags[1].s = Chars("04/02/1995")
  /\ doc.frags[2].k = "label"
  /\ doc.frags[3].s = Chars("04/02/2020")
  /\ data.dateOfBirth = Chars("04/02/2020")


AfterEmail ==
  {"contact", "dob", "experience", "role", "location", "links", "summary", "return", "done"}

\* the first address of a document that is not at a placeholder domain,
\* in lower case, or the empty string
ExpectedEmail(d) ==
  LET real == FirstOf(d, Len(d.frags), {"addr"})
  IN IF real = <<>> THEN <<>> ELSE d.frags[real[1]].v

\* C4: the email is never an address at a placeholder domain: it is the
\* first address of the text that is not at example.com, email.com,
\* test.com or domain.com, in lower case, and empty when there is none
C4_NoPlaceholderEmail ==
  pc \in AfterEmail => data.email = ExpectedEmail(doc)

AfterContact == AfterEmail \ {"contact"}

\* C5: a text that is one run of digits, with or without a phone label
\* before it, gives no contactNumber when the run has 9 or 16 digits and
\* the whole run when it has 10 or 15
C5_PhoneLengthGate ==
  (/\ pc \in AfterContact
   /\ Len(doc.frags) <= 2
   /\ doc.frags[Len(doc.frags)].k = "run"
   /\ Len(doc.frags) = 2 => doc.frags[1].k = "label")
  => data.contactNumber = doc.frags[Len(doc.frags)].v

\* the position in the text of fragment i of document d, from 0
Offset(d, i) == Len(Render(Doc(d.sep, SubSeq(d.frags, 1, i - 1)))) + (IF i > 1 THEN Len(d.sep) ELSE 0)

\* the email-context test at the occurrence of fragment i itself
InEmailContextAt(d, i) ==
  LET t == Render(d)
      b == Offset(d, i)
      e == b + Len(d.frags[i].s)
      before == substring(t, IF b > 5 THEN b - 5 ELSE 0, b)
      after == substring(t, e, IF e + 5 < Len(t) THEN e + 5 ELSE Len(t))
  IN \/ includes(before, <<"@">>) \/ includes(after, <<"@">>)
     \/ includes(before, <<".">>) /\ includes(after, <<".">>)

\* C6: in a text of words, addresses and runs of 10 digits, the
\* contactNumber is the first run of 10 digits that stands by itself and is
\* not in an email context at its own position, and empty when there is
\* none: the digits of an address are never returned and a run is not
\* rejected for the context of another occurrence of its digits
C6_ContextAtTheCandidate ==
  (/\ pc \in AfterContact
   /\ \A i \in 1..Len(doc.frags) :
        doc.frags[i].k \in {"plain", "addr"} \/ doc.frags[i].n = <<10>>)
  => LET clean == {i \in 1..Len(doc.frags) :
                     doc.frags[i].k = "run" /\ ~InEmailContextAt(doc, i)}
     IN data.contactNumber = (IF clean = {} THEN <<>> ELSE doc.frags[Least(clean)].s)

\* C8: a date of birth on today's day and month is judged a birthday today
\* in every format that writes day/month or day-month, padded or not, or the
\* day with the month's name
C8_MatchesEveryEncodingOfToday ==
  (/\ pc = "checked"
   /\ doc # NoDoc
   /\ doc.frags[1].n[1] = today[1]
   /\ doc.frags[1].n[2] = today[2])
  => verdict = TRUE

\* C9: a date of birth in today's month on another day of the month is not
\* judged a birthday today, in any format
C9_OtherDayNeverMatches ==
  (/\ pc = "checked"
   /\ doc # NoDoc
   /\ doc.frags[1].n[1] # today[1]
   /\ doc.frags[1].n[2] = today[2])
  => verdict = FALSE

\* C10: the summary holds nothing of a section heading line that comes
\* after the summary label, whatever the length of the summary's body
C10_SummaryStopsAtHeading ==
  pc = "done" =>
    \A i, j \in 1..Len(doc.frags) :
      (i < j /\ doc.frags[i].k = "summary" /\ doc.frags[j].k = "heading")
        => ~includes(data.summary, doc.frags[j].s)


\* the positions of a call after the links were extracted
AfterLinks == {"summary", "return", "done"}

\* the fragments of kind k of document d that name site x, in text order
SiteFrags(d, k, x) == {i \in 1..Len(d.frags) : d.frags[i].k = k /\ d.frags[i].n = <<x>>}

\* C11: a full LinkedIn or GitHub profile URL in the text is returned as the
\* link of its site, unchanged but for the https:// prefixed to a URL
\* without a scheme.
C11_FullUrlPassedThrough ==
  (pc \in AfterLinks) =>
    \A x \in {"linkedin", "github"} :
      SiteFrags(doc, "url", x) # {} =>
        data.links[x] = doc.frags[Least(SiteFrags(doc, "url", x))].v


\* the fragments of document d that carry a label of site x
Labeled(d, x) == SiteFrags(d, "handle", x) \cup SiteFrags(d, "dotted", x)

\* C12: without a full profile URL in the text, a label github: or linkedin:
\* followed by a handle without '.' and '@' yields the base URL of the site
\* with exactly that handle appended, for every such handle.
C12_HandleAppendedToBase ==
  (pc \in AfterLinks) =>
    \A x \in {"linkedin", "github"} :
      (/\ \A i \in 1..Len(doc.frags) : doc.frags[i].k # "url"
       /\ Labeled(doc, x) # {}
       /\ Least(Labeled(doc, x)) \in SiteFrags(doc, "handle", x))
      => data.links[x] = doc.frags[Least(Labeled(doc, x))].v


\* a string of digits with at most one '+', which is then its first character
DigitsAndLeadingPlus(s) ==
  \A i \in 1..Len(s) : s[i] \in Digit \/ (s[i] = "+" /\ i = 1)

\* C13: after any extraction contactNumber is empty or a string of 10 to 15
\* characters, all digits but for at most one '+', which is then the first
\* character.
C13_ContactNumberShape ==
  (pc \in AfterContact) =>
    \/ data.contactNumber = <<>>
    \/ /\ PhoneLengthOk(data.contactNumber)
       /\ DigitsAndLeadingPlus(data.contactNumber)


\* the candidate after a label: the cleaned run of phone characters that
\* starts at fragment i of document d
RECURSIVE RunAfter(_, _)
RunAfter(d, i) ==
  IF i > Len(d.frags) \/ d.frags[i].k # "run" THEN <<>>
  ELSE d.frags[i].v \o RunAfter(d, i + 1)

\* the labels of document d whose candidate cleans to 10-15 characters
AcceptedLabels(d) ==
  {i \in 1..Len(d.frags) : d.frags[i].k = "label" /\ PhoneLengthOk(RunAfter(d, i + 1))}

\* C16: whenever some label-prefixed candidate cleans to a number of 10-15
\* characters, contactNumber is the first such labeled candidate, also when
\* an acceptable unlabeled number stands earlier in the text.
C16_LabeledBeforeStandalone ==
  (pc \in AfterContact /\ AcceptedLabels(doc) # {}) =>
    data.contactNumber = RunAfter(doc, Least(AcceptedLabels(doc)) + 1)


\* an absolute URL: it begins with http:// or https://
IsAbsoluteUrl(s) == startsWith(s, Chars("http://")) \/ startsWith(s, Chars("https://"))

\* C14: after any extraction each of links.linkedin, links.github and
\* links.portfolio is the empty string or an absolute URL that begins with
\* http:// or https://, with no label or other text before it.
C14_LinksAbsoluteOrEmpty ==
  (pc \in AfterLinks) =>
    \A x \in LinkFields : data.links[x] = <<>> \/ IsAbsoluteUrl(data.links[x])


\* the stored date of birth d is a date on today's day and month
DenotesToday(d) == \E f \in StoredDobs : f.s = d /\ f.n = today

\* the stored record number i of a collection is in the list of the response
Listed(source, i) ==
  \E j \in 1..Len(response.birthdays) : response.birthdays[j]._id = <<source, i>>

\* the entry of the list is a stored resume, with its name and its phone
OfStoredResume(b) ==
  /\ b._id[2] \in 1..Len(people.resumes)
  /\ people.resumes[b._id[2]].name # <<>> => b.name = people.resumes[b._id[2]].name
  /\ people.resumes[b._id[2]].contactNumber # <<>>
       => b.phone = people.resumes[b._id[2]].contactNumber

\* C15: the today's-birthdays endpoint returns count equal to the number of
\* listed birthdays and lists, with name and phone, exactly the stored people
\* whose date of birth is today: a record with today's day number joined to
\* today's month name by '/' is listed, a record of another day is not.
C15_ListsExactlyTodaysBirthdays ==
  (pc = "responded" /\ response.status = 200) =>
    /\ response.count = Len(response.birthdays)
    /\ \A i \in 1..Len(people.resumes) :
         Listed("Upload", i) <=> DenotesToday(people.resumes[i].dateOfBirth)
    /\ \A i \in 1..Len(people.emails) :
         Listed("Email", i) <=> DenotesToday(AttachmentField(people.emails[i], "dateOfBirth"))
    /\ \A j \in 1..Len(response.birthdays) :
         response.birthdays[j].source = "Upload" => OfStoredResume(response.birthdays[j])


\* the fragments of kind k of document d
OfKind(d, k) == {i \in 1..Len(d.frags) : d.frags[i].k = k}

\* C17: a non-empty dateOfBirth is a contiguous substring of the text, one
\* of its dates exactly as it is written (same digits, separators and
\* order), and it never includes a label.
C17_DateOfBirthAsWritten ==
  (pc \in AfterDateOfBirth /\ data.dateOfBirth # <<>>) =>
    /\ includes(text, data.dateOfBirth)
    /\ \E i \in OfKind(doc, "date") : data.dateOfBirth = doc.frags[i].s
    /\ \A i \in OfKind(doc, "label") : ~includes(data.dateOfBirth, doc.frags[i].s)


AfterExperience == AfterDateOfBirth \ {"experience"}

\* the experience patterns, in pattern order, that match the text t
MatchingExperience(t) ==
  {j \in 1..Len(experiencePatterns) : test(experiencePatterns[j], t)}

\* the numeral captured by the first match of experience pattern j in t
CapturedNumeral(t, j) == Group(t, SearchFrom(experiencePatterns[j], t, 1), 1)

\* an integer or decimal numeral: digits, or digits '.' digits
IsNumeral(s) ==
  /\ Len(s) > 0
  /\ \A i \in 1..Len(s) : s[i] \in Digit \/ (s[i] = "." /\ 1 < i /\ i < Len(s))
  /\ Cardinality({i \in 1..Len(s) : s[i] = "."}) <= 1

\* C18: after any extraction experience is empty or "<n> years", where n is
\* the integer or decimal numeral captured by the first experience pattern,
\* in pattern order, that matches the text.
C18_ExperienceNumeralYears ==
  (pc \in AfterExperience) =>
    IF MatchingExperience(text) = {} THEN data.experience = <<>>
    ELSE /\ data.experience =
              CapturedNumeral(text, Least(MatchingExperience(text))) \o Chars(" years")
         /\ IsNumeral(SubSeq(data.experience, 1, Len(data.experience) - 6))

\* the counted form comes first and a labeled form later: the first pattern
\* is the labeled one, and the call returned its numeral
C18_Witness ==
  /\ pc = "done"
  /\ text = Chars("3.5 yrs of experience exp 7 yr")
  /\ data.experience = Chars("7 years")


\* the field that the step at position p writes
Owner(p) ==
  CASE p \in {"name1", "name2", "name2b", "name3", "name4"} -> "name"
    [] p = "email" -> "email"
    [] p = "contact" -> "contactNumber"
    [] p = "dob" -> "dateOfBirth"
    [] p \in {"experience", "role", "location", "links", "summary"} -> p
    [] OTHER -> "none"

\* the name that the five strategies find in the text t, from an empty name
NameOf(t) ==
  NameStrategy4(NameStrategy3(NameStrategy2b(NameStrategy2(NameStrategy1(<<>>, t), Lines(t)),
                                             Lines(t)), Lines(t)), t)

\* the profile whose every field is found from the text t alone
FieldByField(t) ==
  [name |-> NameOf(t),
   email |-> ExtractEmail(t),
   contactNumber |-> ExtractContactNumber(t),
   dateOfBirth |-> ExtractDateOfBirth(t, NewRegExps.dob).dob,
   experience |-> ExtractExperience(t),
   role |-> ExtractRole(t, Lines(t)),
   location |-> ExtractLocation(t),
   skills |-> <<>>,
   education |-> <<>>,
   summary |-> ExtractSummary(t, NewRegExps.summary).summary,
   links |-> [linkedin |-> ExtractLinkedin(t, NewRegExps.linkedin).link,
              github |-> ExtractGithub(t, NewRegExps.github).link,
              portfolio |-> ExtractPortfolio(t)]]

\* C19: field extraction is independent per field.  Every step of a call
\* writes only its own field, the returned value of every field is what its
\* cascade finds in the text alone, whichever other fields matched or
\* failed, and skills and education are empty in every state.
C19_FieldsIndependent ==
  /\ [][pc # "enter" => \A f \in Fields : f # Owner(pc) => data'[f] = data[f]]_vars
  /\ [](data.skills = <<>> /\ data.education = <<>>)
  /\ [](pc = "done" => data = FieldByField(text))

\* three calls returned: the name and the links matched in one with no date
\* of birth, the date of birth matched in another with no name, and the
\* number matched in the third next to an address that is not a name
C19_Witness ==
  /\ pc = "done"
  /\ Len(returned) = 3
  /\ returned[1].data.name # <<>> /\ returned[1].data.links.github # <<>>
  /\ returned[1].data.dateOfBirth = <<>>
  /\ returned[2].data.dateOfBirth # <<>> /\ returned[2].data.name = <<>>
  /\ returned[3].data.contactNumber # <<>> /\ returned[3].data.email # <<>>


\* the domain of an address: what follows its '@'
DomainOf(addr) == SubSeq(addr, indexOf(addr, <<"@">>) + 1, Len(addr))

\* the addresses of document d whose domain is none of the four placeholders
Surviving(d) ==
  {i \in OfKind(d, "addr") :
     \A j \in 1..Len(falsePositives) : DomainOf(d.frags[i].v) # falsePositives[j]}

\* C20: the placeholder filter drops a candidate if and only if its domain is
\* one of example.com, email.com, test.com, domain.com: an address at a
\* domain that only contains one of them in a longer name survives and is
\* selected when it is the first that survives.
C20_DropsExactlyPlaceholderDomains ==
  (pc \in AfterEmail) =>
    data.email = (IF Surviving(doc) = {} THEN <<>> ELSE doc.frags[Least(Surviving(doc))].v)


AfterLocation == {"links", "summary", "return", "done"}

\* C21: the location label tier comes first and yields the labeled value:
\* when the text has a location label followed by a place name, also when
\* there is only one such label, location is the place after the first
\* label, without the label, in preference to the phrase and bare patterns.
C21_LabeledLocationFirst ==
  (pc \in AfterLocation /\ OfKind(doc, "labeled") # {}) =>
    data.location = doc.frags[Least(OfKind(doc, "labeled"))].v


AfterRole == AfterLocation \cup {"location"}


\* the text carries one of the role labels
HasRoleLabel(t) == test(RegExp(RoleLabel, 0, "i"), t)

\* r is a common role title that occurs in the first 2000 characters of t
CommonTitleInHead(t, r) ==
  \E j \in 1..Len(commonRoles) :
    /\ commonRoles[j] = r
    /\ includes(substring(toLowerCase(t), 0, MinOf(2000, Len(t))), toLowerCase(r))

\* r is taken from one of the first 15 lines, one that holds a role keyword
KeywordOnEarlyLine(ls, r) ==
  \E i \in 1..MinOf(15, Len(ls)) :
    HasAny(toLowerCase(ls[i]), LineKeywords) /\ includes(ls[i], r)

\* C22: without an explicit role label, role is populated only from a
\* common role title within the first 2000 characters or from a role
\* keyword on one of the first 15 non-empty lines; a role phrase that occurs
\* only later leaves role empty.
C22_UnlabeledRoleOnlyFromHeadOrEarlyLines ==
  (pc \in AfterRole /\ ~HasRoleLabel(text) /\ data.role # <<>>) =>
    CommonTitleInHead(text, data.role) \/ KeywordOnEarlyLine(Lines(text), data.role)

\* C23: after any extraction role is empty or title-cased: every
\* whitespace-separated word of role begins with an uppercase letter,
\* whichever tier produced it.
C23_RoleTitleCased ==
  pc \in AfterRole =>
    \A w \in Range(split(WhiteSpaceRun, data.role)) : w = <<>> \/ w[1] \in Upper


\* name is the first line, a single word in capitals of length 6-29, split
\* into two tokens
SingleWordSplit(name, ls) ==
  /\ Len(ls) > 0 /\ Len(ls[1]) >= 6 /\ Len(ls[1]) <= 29
  /\ \A i \in 1..Len(ls[1]) : ls[1][i] \in Upper
  /\ \E p \in 2..(Len(ls[1]) - 1) :
       name = SubSeq(ls[1], 1, p) \o <<" ">> \o SubSeq(ls[1], p + 1, Len(ls[1]))

\* name is one of the first five lines, 2-4 alphabetic words in capitals, of
\* length 6-49
SpacedCapsLine(name, ls) ==
  \E i \in 1..MinOf(5, Len(ls)) :
    /\ name = ls[i] /\ Len(name) >= 6 /\ Len(name) <= 49
    /\ LET words == split(WhiteSpaceRun, name)
       IN /\ Len(words) >= 2 /\ Len(words) <= 4
          /\ \A j \in 1..Len(words) :
               words[j] # <<>> /\ \A c \in Range(words[j]) : c \in Upper

\* C24: the all-caps strategies take a line in capitals as the name only in
\* two shapes: a first line that is a single word of length 6-29, split
\* into two tokens, or a line among the first five of 2-4 alphabetic words
\* and length 6-49; a first line in capitals of five or more words is not
\* taken.
C24_AllCapsNameShapes ==
  (pc = "name3" /\ data.name # <<>>) =>
    SingleWordSplit(data.name, Lines(text)) \/ SpacedCapsLine(data.name, Lines(text))


\* the text of document d after the label of its first fragment
AfterLabel(d) ==
  trim(SubSeq(Render(d), Len(d.frags[1].s) - Len(d.frags[1].v) + 1, Len(Render(d))))

\* C25: a summary label followed by free text that runs to the end of the
\* input, with no later section heading, yields that text as summary
\* whenever it is longer than 20 characters, also when it is a single line
\* and when the input does not end with a newline.
C25_SummaryToEndOfInput ==
  (/\ pc \in {"return", "done"}
   /\ doc.frags[1].k = "summary"
   /\ \A i \in 2..Len(doc.frags) : doc.frags[i].k = "plain"
   /\ Len(AfterLabel(doc)) > 20)
  => data.summary = AfterLabel(doc)


\* the date of birth that the first two labeled patterns and the fallback
\* find in t, the third pattern left out
DateOfBirthWithoutThird(t) ==
  LET first == SearchFrom(dobPatterns[1], t, 1)
      second == SearchFrom(dobPatterns[2], t, 1)
  IN IF first.ok THEN trim(Group(t, first, 1))
     ELSE IF second.ok THEN trim(Group(t, second, 1))
     ELSE DobFallback(t)

\* C26: the third, loose birth-date pattern never determines dateOfBirth:
\* every text that it matches is also matched by the first labeled numeric
\* pattern, which is tried earlier, so the result is the one that the
\* patterns without the third produce.
C26_ThirdDobPatternRedundant ==
  pc \in AfterDateOfBirth =>
    /\ test(dobPatterns[3], text) => test(dobPatterns[1], text)
    /\ data.dateOfBirth = DateOfBirthWithoutThird(text)

\* a date after a label with a stray leading character is found
C26_Witness ==
  /\ pc \in AfterDateOfBirth
  /\ doc.frags[1].k = "stray"
  /\ test(dobPatterns[3], text)
  /\ Matched(text, SearchFrom(dobPatterns[3], text, 1))[1] = "z"
  /\ data.dateOfBirth = Chars("04/02/1995")


\* C27: the three copies of the birthday predicate, in the SMS birthday
\* check, the notification endpoint and the feature test script, decide
\* identically: for every date of birth, day, month and month name all
\* three return the same boolean.
C27_BirthdayCopiesAgree ==
  /\ pc = "checked" =>
       /\ verdict = isBirthdayTodayEndpoint(dob, today[1], today[2], monthNames[today[2]])
       /\ verdict = isBirthdayTodayScript(dob, today[1], today[2], monthNames[today[2]])
  /\ pc \in {"birthday", "checked"} =>
       \A name \in Range(monthNames) :
         /\ isBirthdayToday(dob, today[1], today[2], name)
              = isBirthdayTodayEndpoint(dob, today[1], today[2], name)
         /\ isBirthdayToday(dob, today[1], today[2], name)
              = isBirthdayTodayScript(dob, today[1], today[2], name)

\* the three copies accept a date of birth through the day's ordinal only
C27_Witness ==
  /\ pc = "checked" /\ verdict = TRUE /\ dob # Null
  /\ isBirthdayTodayScript(dob, today[1], today[2], monthNames[today[2]])
  /\ ~isBirthdayTodayScriptPatternsOnly(dob, today[1], today[2], monthNames[today[2]])


\* C28: for every interleaving of the startup scan, the timer check and the
\* 'mail' event handler running processEmail on the same mailbox, each
\* message UID leads to at most one stored Email record: no two stored
\* records ever share an emailId.
C28_OneRecordPerEmailId ==
  \A i, j \in 1..Len(stored) : i # j => stored[i].emailId # stored[j].emailId

\* two calls of processEmail on the same mailbox, set off differently, have
\* both passed Email.findOne for a message: one saved the record and the
\* save of the other was rejected
C28_Witness ==
  \E a \in Accounts, i, j \in DOMAIN runs :
    /\ runs[i].account = a /\ runs[j].account = a
    /\ runs[i].trigger # runs[j].trigger
    /\ \E u \in Range(Mailbox[a]) :
         <<"saved", a, u>> \in log /\ <<"duplicate", a, u>> \in log

\* C29: processed-message tracking is separate per monitored account: a
\* message of one account is never skipped as already processed because a
\* message with the same UID was processed earlier for another account: a
\* message is skipped only when the record of that account's message was
\* saved.
C29_ProcessedPerAccount ==
  \A e \in log : e[1] = "skipped" => <<"saved", e[2], e[3]>> \in log

\* C30: whenever an account's attempt to start monitoring fails, by a
\* connection or authentication error or by the 30-second timeout, a new
\* attempt is scheduled 60 seconds later; so an account whose first attempt
\* failed is eventually monitored once its server accepts the connection.
C30_FailedAttemptRetried ==
  /\ [][\A a \in Accounts :
          (~attempts[a].failed /\ attempts'[a].failed) => attempts'[a].race = "retry"]_vars
  /\ \A a \in Accounts :
       (<>[](server[a] = "accepting") /\ <>attempts[a].failed)
         => <>(attempts[a].instances > 0)

=============================================================================
